---- MODULE Spec2Model ----
(***************************************************************************)
(* The HPOA annotation store of aurelian (agents/hpoa): the loader of      *)
(* hpoa_config.py and the filter tools of hpoa_tools.py.                   *)
(*                                                                         *)
(* Text is a sequence of one-character strings, so that the string         *)
(* operations of the code (strip, upper, replace, re.search, SQL LIKE)     *)
(* are computed character by character.                                    *)
(***************************************************************************)
EXTENDS Integers, Sequences, FiniteSets, TLC

----------------------------------------------------------------------------
(* Characters and the string operations of Python and SQLite.              *)

LowerLetters == <<"a", "b", "c", "d", "e", "f", "g", "h", "i", "j", "k", "l", "m", "n", "o", "p", "q", "r", "s", "t", "u", "v", "w", "x", "y", "z">>
UpperLetters == <<"A", "B", "C", "D", "E", "F", "G", "H", "I", "J", "K", "L", "M", "N", "O", "P", "Q", "R", "S", "T", "U", "V", "W", "X", "Y", "Z">>
DigitChars == {"0", "1", "2", "3", "4", "5", "6", "7", "8", "9"}

SetOf(s) == {s[i] : i \in 1..Len(s)}

IndexIn(c, s) == IF \E i \in 1..Len(s) : s[i] = c
                 THEN CHOOSE i \in 1..Len(s) : s[i] = c /\ \A j \in 1..(i - 1) : s[j] # c
                 ELSE 0

\* the case mappings of the ASCII letters
UpperMap == [c \in SetOf(LowerLetters) |-> UpperLetters[IndexIn(c, LowerLetters)]]
LowerMap == [c \in SetOf(UpperLetters) |-> LowerLetters[IndexIn(c, UpperLetters)]]

UpperChar(c) == IF c \in DOMAIN UpperMap THEN UpperMap[c] ELSE c
LowerChar(c) == IF c \in DOMAIN LowerMap THEN LowerMap[c] ELSE c

\* str.upper() and str.lower()
upper(s) == [i \in 1..Len(s) |-> UpperChar(s[i])]
lower(s) == [i \in 1..Len(s) |-> LowerChar(s[i])]

\* the whitespace str.strip() removes; str.replace(" ", "") removes only " "
IsSpace(c) == c \in {" ", "\t"}

RECURSIVE lstrip(_)
lstrip(s) == IF s # <<>> /\ IsSpace(Head(s)) THEN lstrip(Tail(s)) ELSE s

RECURSIVE rstrip(_)
rstrip(s) == IF s # <<>> /\ IsSpace(s[Len(s)]) THEN rstrip(SubSeq(s, 1, Len(s) - 1)) ELSE s

\* str.strip()
strip(s) == rstrip(lstrip(s))

startswith(s, p) == Len(s) >= Len(p) /\ SubSeq(s, 1, Len(p)) = p

\* Python's `sub in s`
contains(s, sub) == \E i \in 0..(Len(s) - Len(sub)) : SubSeq(s, i + 1, i + Len(sub)) = sub

\* str.replace(old, ""): every non-overlapping occurrence, left to right
RECURSIVE remove_all(_, _)
remove_all(s, old) ==
    IF s = <<>> \/ old = <<>> THEN s
    ELSE IF startswith(s, old) THEN remove_all(SubSeq(s, Len(old) + 1, Len(s)), old)
    ELSE <<Head(s)>> \o remove_all(Tail(s), old)

\* SQLite UPPER(x): folds the ASCII letters
UPPER(s) == [i \in 1..Len(s) |-> UpperChar(s[i])]

\* SQLite REPLACE(x, ' ', '')
REPLACE_space(s) == SelectSeq(s, LAMBDA c : c # " ")

\* SQLite `text LIKE pattern`: % matches any run of characters, _ any one
\* character, letters compare without case (also under COLLATE NOCASE)
RECURSIVE LIKE(_, _)
LIKE(t, p) ==
    IF p = <<>> THEN t = <<>>
    ELSE IF Head(p) = "%" THEN LIKE(t, Tail(p)) \/ (t # <<>> /\ LIKE(Tail(t), p))
    ELSE /\ t # <<>>
         /\ (Head(p) = "_" \/ UpperChar(Head(p)) = UpperChar(Head(t)))
         /\ LIKE(Tail(t), Tail(p))

----------------------------------------------------------------------------
(* filter_hpoa: detection of a CURIE in the query.                         *)

\* the alternatives of id_pattern, in the order the pattern lists them
IdPrefixes == << <<"O", "M", "I", "M">>, <<"O", "R", "P", "H", "A">>, <<"M", "O", "N", "D", "O">>, <<"D", "E", "C", "I", "P", "H", "E", "R">> >>

\* the character class [A-Z0-9_.-]
IdClass == SetOf(UpperLetters) \cup DigitChars \cup {"_", ".", "-"}
IdChar(c) == c \in IdClass

\* the pattern matches at position i of s: a prefix, ":", one class character
PrefixAt(s, i, p) == /\ i + Len(p) + 1 <= Len(s)
                     /\ SubSeq(s, i, i + Len(p) - 1) = p
                     /\ s[i + Len(p)] = ":"
                     /\ IdChar(s[i + Len(p) + 1])

\* re.search(id_pattern, s): the leftmost match, its class part greedy.
\* found is FALSE for no match (None in the code).
id_search(s) ==
    LET MatchAt(i) == \E k \in 1..Len(IdPrefixes) : PrefixAt(s, i, IdPrefixes[k])
    IN  IF ~\E i \in 1..Len(s) : MatchAt(i) THEN [found |-> FALSE, group |-> <<>>]
        ELSE LET i == CHOOSE i \in 1..Len(s) : MatchAt(i) /\ \A j \in 1..(i - 1) : ~MatchAt(j)
                 k == CHOOSE k \in 1..Len(IdPrefixes) :
                          PrefixAt(s, i, IdPrefixes[k]) /\ \A j \in 1..(k - 1) : ~PrefixAt(s, i, IdPrefixes[j])
                 b == i + Len(IdPrefixes[k]) + 1
                 e == CHOOSE j \in b..Len(s) :
                          /\ \A m \in b..j : IdChar(s[m])
                          /\ (j = Len(s) \/ ~IdChar(s[j + 1]))
             IN  [found |-> TRUE, group |-> SubSeq(s, i, e)]

\* q_raw, id_search and q_id of filter_hpoa
q_raw_of(label) == strip(label)
q_id_of(label) == id_search(REPLACE_space(upper(q_raw_of(label))))

----------------------------------------------------------------------------
(* Annotation rows and dataset files.                                      *)

\* the columns of the hpoa table and of phenotype.hpoa, in order
Columns == <<"database_id", "disease_name", "qualifier", "hpo_id", "reference", "evidence",
             "onset", "frequency", "sex", "modifier", "aspect", "biocuration">>

ColumnSet == {Columns[i] : i \in 1..Len(Columns)}

\* the name of each column as text
ColumnText ==
    [database_id |-> <<"d", "a", "t", "a", "b", "a", "s", "e", "_", "i", "d">>, disease_name |-> <<"d", "i", "s", "e", "a", "s", "e", "_", "n", "a", "m", "e">>,
     qualifier |-> <<"q", "u", "a", "l", "i", "f", "i", "e", "r">>, hpo_id |-> <<"h", "p", "o", "_", "i", "d">>, reference |-> <<"r", "e", "f", "e", "r", "e", "n", "c", "e">>,
     evidence |-> <<"e", "v", "i", "d", "e", "n", "c", "e">>, onset |-> <<"o", "n", "s", "e", "t">>, frequency |-> <<"f", "r", "e", "q", "u", "e", "n", "c", "y">>,
     sex |-> <<"s", "e", "x">>, modifier |-> <<"m", "o", "d", "i", "f", "i", "e", "r">>, aspect |-> <<"a", "s", "p", "e", "c", "t">>,
     biocuration |-> <<"b", "i", "o", "c", "u", "r", "a", "t", "i", "o", "n">>]

\* Python's None and SQLite's NULL: a value that is no text
NULL == <<"NULL">>

\* the value of a column the table does not have (no such key in dict(row))
Missing == <<"no such key">>

IsText(v) == v # NULL /\ v # Missing

\* One record of phenotype.hpoa, every column a text
Row(id, name, hp, ref, ev) ==
    [database_id |-> id, disease_name |-> name, qualifier |-> <<>>, hpo_id |-> hp,
     reference |-> ref, evidence |-> ev, onset |-> <<>>, frequency |-> <<>>, sex |-> <<>>,
     modifier |-> <<>>, aspect |-> <<"P">>, biocuration |-> <<"H", "P", "O", ":", "c", "u", "r">>]

\* HPOA(**row): the pydantic model accepts the row. Every field but
\* biocuration is required (Field(...)); the str fields take no None, the
\* Optional ones do; biocuration has a default_factory and is a str.
HPOA(row) == /\ IsText(row.database_id)
             /\ IsText(row.disease_name)
             /\ row.qualifier \in {NULL, <<>>, <<"N", "O", "T">>}
             /\ IsText(row.hpo_id)
             /\ IsText(row.reference)
             /\ row.evidence \in {<<"I", "E", "A">>, <<"P", "C", "S">>, <<"T", "A", "S">>}
             /\ row.onset # Missing
             /\ row.frequency # Missing
             /\ row.sex \in {NULL, <<"M", "A", "L", "E">>, <<"F", "E", "M", "A", "L", "E">>, <<>>}
             /\ row.modifier # Missing
             /\ row.aspect \in {<<"P">>, <<"I">>, <<"C">>, <<"M">>}
             /\ row.biocuration # NULL

\* the three rows of write_hpoa_fixture
FixtureRows ==
    << Row(<<"O", "M", "I", "M", ":", "1", "2", "3", "4", "5", "6">>, <<"F", "o", "o", " ", "s", "y", "n", "d", "r", "o", "m", "e">>, <<"H", "P", ":", "0", "0", "0", "0", "0", "0", "1">>, <<"P", "M", "I", "D", ":", "1", "1", "1">>, <<"P", "C", "S">>),
       Row(<<"O", "M", "I", "M", ":", "1", "2", "3", "4", "5", "6">>, <<"F", "o", "o", " ", "s", "y", "n", "d", "r", "o", "m", "e">>, <<"H", "P", ":", "0", "0", "0", "0", "0", "0", "2">>, <<"O", "M", "I", "M", ":", "1", "2", "3", "4", "5", "6">>, <<"I", "E", "A">>),
       Row(<<"M", "O", "N", "D", "O", ":", "0", "0", "0", "0", "0", "0", "1">>, <<"X", " ", "s", "y", "n", "d", "r", "o", "m", "e">>, <<"H", "P", ":", "0", "0", "0", "0", "0", "0", "1">>, <<"P", "M", "I", "D", ":", "2", "2", "2">>, <<"T", "A", "S">>) >>

\* rows that differ from the fixture's in case, spacing, length and schema
VariantRows ==
    << Row(<<"O", "M", "I", "M", ":", "1", "2", "3", "4", "5", "6", "7">>, <<"B", "a", "r", "F", "o", "o", "B", "a", "z">>, <<"H", "P", ":", "0", "0", "0", "0", "0", "0", "1", "1">>, <<"P", "M", "I", "D", ":", "1", "1", "1", "5">>, <<"P", "C", "S">>),
       Row(<<"o", "m", "i", "m", ":", " ", "1", "2", "3", "4", "5", "6">>, <<"F", "x", "o", " ", "d", "i", "s", "e", "a", "s", "e">>, <<"h", "p", ":", "0", "0", "0", "0", "0", "0", "1">>, <<"p", "m", "i", "d", ":", "1", "1", "1", ";", "P", "M", "I", "D", ":", "3", "3", "3">>, <<"T", "A", "S">>),
       Row(<<"O", "M", "I", "M", ":", "1", "2", "3", "4", "5">>, <<"1", "0", "0", "%", " ", "f", "_", "o">>, <<"H", "P", ":", "0", "0", "0", "0", "0", "0">>, <<"P", "M", "I", "D", ":", "2", "2", "2", ";", "P", "M", "I", "D", ":", "1", "1", "1">>, <<"I", "E", "A">>),
       Row(<<"O", "M", "I", "M", ":", "1", "2", "3", "4", "5", "6">>, <<"F", "o", "o", " ", "s", "y", "n", "d", "r", "o", "m", "e">>, <<"H", "P", ":", "0", "0", "0", "0", "0", "0", "1">>, <<"P", "M", "I", "D", ":", "1", "1", "1">>, <<"I", "S", "S">>),
       Row(<<"O", "R", "P", "H", "A", ":", "7", "9">>, <<"S", "e", "i", "z", "u", "r", "e", " ", "d", "i", "s", "o", "r", "d", "e", "r">>, <<"S", "e", "i", "z", "u", "r", "e">>, <<"P", "M", "I", "D", ":", "1", "1">>, <<"P", "C", "S">>),
       Row(<<"M", "O", "N", "D", "O", ":", "0", "0", "0", "0", "0", "0", "1">>, <<"X", " ", "s", "y", "n", "d", "r", "o", "m", "e">>, <<"H", "P", ":", "0", "0", "0", "0", "0", "0", "1">>, <<"P", "M", "I", "D", ":", "2", "2", "2">>, <<"T", "A", "S">>) >>

\* rows with the character # inside a field
HashRows ==
    << Row(<<"O", "M", "I", "M", ":", "1", "2", "3", "4", "5", "6">>, <<"F", "o", "o", " ", "s", "y", "n", "d", "r", "o", "m", "e", " ", "#", "2">>, <<"H", "P", ":", "0", "0", "0", "0", "0", "0", "2">>, <<"P", "M", "I", "D", ":", "1", "1", "1">>, <<"P", "C", "S">>),
       Row(<<"M", "O", "N", "D", "O", ":", "0", "0", "0", "0", "0", "0", "1">>, <<"X", " ", "s", "y", "n", "d", "r", "o", "m", "e">>, <<"H", "P", ":", "0", "0", "0", "0", "0", "0", "1">>, <<"P", "M", "I", "D", ":", "2", "2", "2">>, <<"T", "A", "S">>) >>

\* sep.join(items)
RECURSIVE join(_, _)
join(sep, items) ==
    IF items = <<>> THEN <<>>
    ELSE IF Len(items) = 1 THEN items[1]
    ELSE items[1] \o sep \o join(sep, Tail(items))

\* HEADER of hpoa_evals.py
HEADER == join(<<"\t">>, [i \in 1..Len(Columns) |-> ColumnText[Columns[i]]])

\* "\t".join(r) for a row r
RowLine(row) == join(<<"\t">>, [i \in 1..Len(Columns) |-> row[Columns[i]]])

RowLines(rows) == [i \in 1..Len(rows) |-> RowLine(rows[i])]

\* content of write_hpoa_fixture: the lines, each followed by a newline
Content(lines) == join(<<"\n">>, lines) \o <<"\n">>

\* the header with the column reference named ref
BadHeader ==
    join(<<"\t">>, [i \in 1..Len(Columns) |->
                       IF Columns[i] = "reference" THEN <<"r", "e", "f">> ELSE ColumnText[Columns[i]]])

\* The dataset files of the model. None holds a double quote, a carriage
\* return or a line with more fields than the header has, so the quoting
\* rules of the csv module and of pandas are not exercised.
FileIds == {"fixture", "variant", "headeronly", "hash", "comments", "empty", "noheader",
            "badheader", "fixture_cut"}

FileText(f) ==
    CASE f = "fixture" -> Content(<<HEADER>> \o RowLines(FixtureRows))
      [] f = "variant" -> Content(<<<<"#", "d", "e", "s", "c", "r", "i", "p", "t", "i", "o", "n", ":", " ", "v", "a", "r", "i", "a", "n", "t">>, HEADER>>
                                  \o RowLines(SubSeq(VariantRows, 1, 3))
                                  \o <<<<>>, <<" ">>>>
                                  \o RowLines(SubSeq(VariantRows, 4, Len(VariantRows))))
      [] f = "headeronly" -> Content(<<<<"#", "d", "e", "s", "c", "r", "i", "p", "t", "i", "o", "n", ":", " ", "n", "o", " ", "r", "e", "c", "o", "r", "d">>, HEADER>>)
      [] f = "hash" -> Content(<<<<"#", "v", "e", "r", "s", "i", "o", "n", ":", " ", "1">>, HEADER>> \o RowLines(HashRows))
      [] f = "comments" -> Content(<<<<"#", "d", "e", "s", "c", "r", "i", "p", "t", "i", "o", "n", ":", " ", "n", "o", " ", "h", "e", "a", "d", "e", "r">>, <<>>, <<"#", "v", "e", "r", "s", "i", "o", "n", ":", " ", "1">>>>)
      [] f = "empty" -> <<>>
      [] f = "noheader" -> Content(RowLines(FixtureRows))
      [] f = "badheader" -> Content(<<BadHeader>> \o RowLines(FixtureRows))
      [] f = "fixture_cut" ->
            LET whole == Content(<<HEADER>> \o RowLines(FixtureRows))
            IN  SubSeq(whole, 1, Len(HEADER) + Len(RowLine(FixtureRows[1])) + 22)

\* str.splitlines() of a text whose only line boundary is "\n"
splitlines(text) ==
    LET ends == {i \in 1..Len(text) : text[i] = "\n"}
                \cup (IF text # <<>> /\ text[Len(text)] # "\n" THEN {Len(text) + 1} ELSE {})
        End(k) == CHOOSE e \in ends : Cardinality({x \in ends : x < e}) = k - 1
        Start(k) == IF k = 1 THEN 1 ELSE End(k - 1) + 1
    IN  [k \in 1..Cardinality(ends) |-> SubSeq(text, Start(k), End(k) - 1)]

\* one line split at the delimiter "\t" (csv.reader and the pandas tokenizer,
\* for a line without quotes)
split_tab(line) ==
    LET ends == {i \in 1..Len(line) : line[i] = "\t"} \cup {Len(line) + 1}
        End(k) == CHOOSE e \in ends : Cardinality({x \in ends : x < e}) = k - 1
        Start(k) == IF k = 1 THEN 1 ELSE End(k - 1) + 1
    IN  [k \in 1..Cardinality(ends) |-> SubSeq(line, Start(k), End(k) - 1)]

\* dict(zip(fieldnames, values)) with restval for the fields a short line
\* lacks: a row as a function from column name to value
RowDict(fieldnames, values, restval) ==
    [name \in SetOf(fieldnames) |->
        LET i == CHOOSE j \in 1..Len(fieldnames) :
                     fieldnames[j] = name /\ \A m \in (j + 1)..Len(fieldnames) : fieldnames[m] # name
        IN  IF i <= Len(values) THEN values[i] ELSE restval]

\* a variant of read_hpoa that cuts every line at the first "#", as the
\* comment option of pandas does
read_hpoa_cutting_at_hash(text) ==
    LET Cut(ln) == IF \E i \in 1..Len(ln) : ln[i] = "#"
                   THEN SubSeq(ln, 1, IndexIn("#", ln) - 1) ELSE ln
        raw == splitlines(text)
        cut == [i \in 1..Len(raw) |-> Cut(raw[i])]
        lines == SelectSeq(cut, LAMBDA ln : strip(ln) # <<>>)
        fieldnames == split_tab(lines[1])
    IN  IF lines = <<>> THEN <<>>
        ELSE [i \in 1..(Len(lines) - 1) |-> RowDict(fieldnames, split_tab(lines[i + 1]), NULL)]

\* _read_hpoa_from_path (and lines 179, 186-187 of the download branch): the
\* lines that are not blank and do not start with "#", read by
\* csv.DictReader: the first one names the fields, restval is None
read_hpoa(text) ==
    LET lines == SelectSeq(splitlines(text),
                           LAMBDA ln : strip(ln) # <<>> /\ ~startswith(ln, <<"#">>))
        fieldnames == split_tab(lines[1])
    IN  IF lines = <<>> THEN <<>>
        ELSE [i \in 1..(Len(lines) - 1) |-> RowDict(fieldnames, split_tab(lines[i + 1]), NULL)]

\* pd.read_csv(path, sep="\t", comment="#", dtype=str, keep_default_na=False):
\* a line is read up to its first "#"; a line that is empty, holds only
\* spaces or starts with "#" is skipped; the first line left is the header;
\* a short line is filled with empty strings, which stay strings; no line
\* left raises EmptyDataError. The DataFrame is its columns and its records.
read_csv(text) ==
    LET raw == splitlines(text)
        Skipped(ln) == \/ ln = <<>>
                       \/ Head(ln) = "#"
                       \/ \A i \in 1..Len(ln) : ln[i] = " "
        kept == SelectSeq(raw, LAMBDA ln : ~Skipped(ln))
        Cut(ln) == IF \E i \in 1..Len(ln) : ln[i] = "#"
                   THEN SubSeq(ln, 1, IndexIn("#", ln) - 1) ELSE ln
        lines == [i \in 1..Len(kept) |-> Cut(kept[i])]
        columns == split_tab(lines[1])
    IN  IF lines = <<>> THEN [raised |-> TRUE, columns |-> <<>>, records |-> <<>>]
        ELSE [raised |-> FALSE, columns |-> columns,
              records |-> [i \in 1..(Len(lines) - 1) |->
                              RowDict(columns, split_tab(lines[i + 1]), <<>>)]]

\* every file parsed once by each reader
Parsed == [f \in FileIds |-> [csv |-> read_hpoa(FileText(f)), df |-> read_csv(FileText(f))]]

\* row.get(name) of a parsed row
get(row, name) == IF name \in DOMAIN row THEN row[name] ELSE NULL

----------------------------------------------------------------------------
(* The SQL queries of the three filters and the validation of their rows.  *)

\* The table argument of the queries is the sequence of the table's rows; a
\* comparison with NULL selects no row.

\* a variant of validated that keeps every fetched row
validated_keeping_all(rows) == rows

\* results: the fetched rows that HPOA(**row) accepts; the others are skipped
validated(rows) == SelectSeq(rows, HPOA)

\* a variant of select_by_id that matches the id by containment
select_by_id_containing(table, q_id) ==
    SelectSeq(table, LAMBDA r : IsText(r.database_id)
                                /\ LIKE(UPPER(REPLACE_space(r.database_id)), <<"%">> \o q_id \o <<"%">>))

\* SELECT * FROM hpoa WHERE UPPER(REPLACE(database_id,' ','')) = ?
select_by_id(table, q_id) ==
    SelectSeq(table, LAMBDA r : IsText(r.database_id) /\ UPPER(REPLACE_space(r.database_id)) = q_id)

\* SELECT * FROM hpoa WHERE disease_name LIKE ? COLLATE NOCASE, with %q_raw%
select_by_name(table, q_raw) ==
    SelectSeq(table, LAMBDA r : IsText(r.disease_name) /\ LIKE(r.disease_name, <<"%">> \o q_raw \o <<"%">>))

\* the rows filter_hpoa returns from a loaded table
filter_hpoa_rows(table, label) ==
    LET q_id == q_id_of(label)
    IN  IF q_id.found
        THEN validated(select_by_id(table, q_id.group))
        ELSE validated(select_by_name(table, q_raw_of(label)))

\* a variant of pid_of that keeps the PMID: prefix
pid_keeping_prefix(pmid) == strip(pmid)

\* pid = pmid.strip().replace("PMID:", "").strip()
pid_of(pmid) == strip(remove_all(strip(pmid), <<"P", "M", "I", "D", ":">>))

\* a variant of select_by_pmid that compares the reference as written
select_by_pmid_case_sensitive(table, pid) ==
    SelectSeq(table, LAMBDA r : IsText(r.reference) /\ contains(r.reference, <<"P", "M", "I", "D", ":">> \o pid))

\* SELECT * FROM hpoa WHERE UPPER(reference) LIKE ?, with %PMID:pid%
select_by_pmid(table, pid) ==
    SelectSeq(table, LAMBDA r : IsText(r.reference)
                                /\ LIKE(UPPER(r.reference), <<"%">> \o <<"P", "M", "I", "D", ":">> \o pid \o <<"%">>))

\* the rows filter_hpoa_by_pmid returns from a loaded table
filter_hpoa_by_pmid_rows(table, pmid) == validated(select_by_pmid(table, pid_of(pmid)))

\* SELECT * FROM hpoa WHERE UPPER(hpo_id) = ?, with hp_norm.upper()
select_by_hp(table, hp_norm) ==
    SelectSeq(table, LAMBDA r : IsText(r.hpo_id) /\ UPPER(r.hpo_id) = upper(hp_norm))

\* a variant of is_hp_id that tests the text as written
is_hp_id_case_sensitive(hp_norm) == startswith(hp_norm, <<"H", "P", ":">>)

\* hp_norm.upper().startswith("HP:")
is_hp_id(hp_norm) == startswith(upper(hp_norm), <<"H", "P", ":">>)

----------------------------------------------------------------------------
(* The HP ontology adapter (oaklib, external) and label resolution.        *)

\* an optional text: None is [some |-> FALSE]
None == [some |-> FALSE, val |-> <<>>]
Some(v) == [some |-> TRUE, val |-> v]

HP_ALL == <<"H", "P", ":", "0", "0", "0", "0", "0", "0", "1">>
HP_SEIZURE == <<"H", "P", ":", "0", "0", "0", "1", "2", "5", "0">>
MONDO_HIT == <<"M", "O", "N", "D", "O", ":", "0", "0", "0", "0", "0", "0", "1">>

\* CATEGORY_ROOT (hpoa_tools.py line 24), three of its immediate children in
\* the ontology the adapter serves, an id the ontology does not have, and
\* the predicate of the is-a relationships
CATEGORY_ROOT == <<"H", "P", ":", "0", "0", "0", "0", "1", "1", "8">>
HP_GROWTH_DELAY == <<"H", "P", ":", "0", "0", "0", "1", "5", "1", "0">>
HP_GROWTH == <<"H", "P", ":", "0", "0", "0", "1", "5", "0", "7">>
HP_NERVOUS == <<"H", "P", ":", "0", "0", "0", "0", "7", "0", "7">>
HP_UNKNOWN == <<"H", "P", ":", "9", "9", "9", "9", "9", "9", "9">>
IS_A == <<"r", "d", "f", "s", ":", "s", "u", "b", "C", "l", "a", "s", "s", "O", "f">>

\* hp_adapter.label(curie) of a reachable ontology; None for an unknown id
adapter_label(curie) ==
    CASE curie = HP_ALL -> Some(<<"A", "l", "l">>)
      [] curie = HP_SEIZURE -> Some(<<"S", "e", "i", "z", "u", "r", "e">>)
      [] curie = CATEGORY_ROOT -> Some(<<"P", "h", "e", "n", "o", "t", "y", "p", "i", "c", " ", "a", "b", "n", "o", "r", "m", "a", "l", "i", "t", "y">>)
      [] curie = HP_GROWTH_DELAY -> Some(<<"G", "r", "o", "w", "t", "h", " ", "d", "e", "l", "a", "y">>)
      [] curie = HP_GROWTH -> Some(<<"G", "r", "o", "w", "t", "h">>)
      [] curie = HP_NERVOUS -> Some(<<"N", "e", "r", "v", "o", "u", "s", " ", "s", "y", "s", "t", "e", "m">>)
      [] OTHER -> None

\* what one basic_search call does: it raises, or returns a list of ids
SearchOutcomes ==
    {[raises |-> TRUE, ids |-> <<>>]} \cup
    {[raises |-> FALSE, ids |-> r] :
        r \in {<<>>, <<HP_SEIZURE>>, <<MONDO_HIT, HP_ALL>>, <<HP_ALL, HP_SEIZURE>>}}

\* the adapter during one tool call: get_hp_adapter may raise (unavailable),
\* the search with is_partial=False and with is_partial=True, label() may raise
AdapterBehaviours ==
    {b \in [unavailable : BOOLEAN, exact : SearchOutcomes, partial : SearchOutcomes,
            label_raises : BOOLEAN] :
        /\ b.unavailable => (b.exact.raises /\ b.partial.raises /\ b.label_raises)
        /\ (~b.exact.raises /\ b.exact.ids # <<>>) => b.partial.raises}

\* a variant of hp_label that answers with the id when the adapter has no label
hp_label_defaulting(cache, curie, beh) ==
    IF curie \in DOMAIN cache
    THEN [val |-> cache[curie], cache |-> cache, calls |-> 0]
    ELSE LET val == IF beh.label_raises \/ ~adapter_label(curie).some
                    THEN Some(curie) ELSE adapter_label(curie)
         IN  [val |-> val, cache |-> (curie :> val) @@ cache, calls |-> 1]

\* _hp_label: read-through cache over hp_adapter.label
hp_label(cache, curie, beh) ==
    IF curie \in DOMAIN cache
    THEN [val |-> cache[curie], cache |-> cache, calls |-> 0]
    ELSE LET val == IF beh.label_raises THEN None ELSE adapter_label(curie)
         IN  [val |-> val, cache |-> (curie :> val) @@ cache, calls |-> 1]

\* the loop of _resolve_hp_term_by_label over hp_terms: the first term whose
\* label equals lc
RECURSIVE scan_labels(_, _, _, _, _)
scan_labels(hp_terms, lc, cache, calls, beh) ==
    IF hp_terms = <<>> THEN [hit |-> None, cache |-> cache, calls |-> calls]
    ELSE LET l == hp_label(cache, Head(hp_terms), beh)
             lab == IF l.val.some THEN l.val.val ELSE <<>>
         IN  IF lower(strip(lab)) = lc
             THEN [hit |-> Some(Head(hp_terms)), cache |-> l.cache, calls |-> calls + l.calls]
             ELSE scan_labels(Tail(hp_terms), lc, l.cache, calls + l.calls, beh)

\* _resolve_hp_term_by_label
resolve_hp_term_by_label(cache, label, beh) ==
    LET first == IF beh.exact.raises THEN <<>> ELSE beh.exact.ids
        results == IF first # <<>> THEN first
                   ELSE IF beh.partial.raises THEN <<>> ELSE beh.partial.ids
        searches == IF first # <<>> THEN 1 ELSE 2
        hp_terms == SelectSeq(results, LAMBDA c : startswith(c, <<"H", "P", ":">>))
        scan == scan_labels(hp_terms, lower(strip(label)), cache, searches, beh)
    IN  [resolved |-> IF scan.hit.some THEN scan.hit
                      ELSE IF hp_terms # <<>> THEN Some(hp_terms[1]) ELSE None,
         cache |-> scan.cache, calls |-> scan.calls]

\* filter_hpoa_by_hp up to the query: hp_norm, the cache, the number of
\* adapter calls and whether get_hp_adapter was called
hp_norm_of(cache, hp, beh) ==
    LET stripped == strip(hp)
    IN  IF is_hp_id(stripped) \/ beh.unavailable
        THEN [hp_norm |-> stripped, cache |-> cache, calls |-> 0, resolved |-> None,
              requested |-> ~is_hp_id(stripped)]
        ELSE LET r == resolve_hp_term_by_label(cache, stripped, beh)
             IN  [hp_norm |-> IF r.resolved.some THEN r.resolved.val ELSE stripped,
                  cache |-> r.cache, calls |-> r.calls, resolved |-> r.resolved,
                  requested |-> TRUE]

\* the rows filter_hpoa_by_hp returns from a loaded table
filter_hpoa_by_hp_rows(table, hp_norm) == validated(select_by_hp(table, hp_norm))

----------------------------------------------------------------------------
(* State.                                                                  *)

VARIABLES
    pd,                \* whether `import pandas` succeeded (pd is not None)
    env_path,          \* AURELIAN_HPOA_PATH: "unset", "missing" (set, no such file) or the file it names
    workdir_location,  \* self.workdir and self.workdir.location
    cached_file,       \* ${workdir}/phenotype.hpoa: "absent" or its content
    remote,            \* the GitHub release endpoint: the file it serves, or how a request fails
    hpoa_db,           \* hpoa.db: the file, the hpoa table, its columns and its rows
    HP_LABEL_CACHE,    \* _HP_LABEL_CACHE
    last,              \* the last call: operation, arguments, outcome and what it did
    tasks,             \* the calls in progress in concurrent threads, each with its position
    reads,             \* what each query of a concurrent thread read from hpoa.db
    first_load,        \* the first completed load: its dataset and the table it left
    HP_ANCESTORS_CACHE,   \* _HP_ANCESTORS_CACHE
    HP_OUTGOING_CACHE,    \* _HP_OUTGOING_CACHE
    HP_CHILDREN_CACHE,    \* _HP_CHILDREN_CACHE
    CATEGORY_LABEL_TO_ID, \* _CATEGORY_LABEL_TO_ID
    limiter_calls,     \* self.calls of the ToolLimiter of each tool of simple_hpoa_agent
    invoked,           \* how many times each ToolLimiter has awaited self.func
    async_client,      \* _async_client: 0 for None, or the client
    clients,           \* how many httpx.AsyncClient objects have been created
    closed,            \* the clients whose aclose() has been called
    sessions,          \* the call_agent_with_retry request of each worker thread
    last_tool          \* the last call of a ToolLimiter wrapper, and the last close

env == <<pd, env_path, workdir_location, cached_file, remote>>
onto == <<HP_ANCESTORS_CACHE, HP_OUTGOING_CACHE, HP_CHILDREN_CACHE, CATEGORY_LABEL_TO_ID>>
agent == <<limiter_calls, invoked, async_client, clients, closed, sessions, last_tool>>
vars == <<pd, env_path, workdir_location, cached_file, remote, hpoa_db, HP_LABEL_CACHE, last,
          tasks, reads, first_load, onto, agent>>

\* the worker threads that run calls at the same time
NThreads == 2

Threads == 1..NThreads

RemoteFailures == {"manifest_error", "no_asset", "asset_error"}

\* hpoa.db: no file; a file without the table; the table with its columns
\* (those of the twelve it has) and its rows
NoDb == [file |-> FALSE, present |-> FALSE, columns |-> {}, rows |-> <<>>]
NoTable == [file |-> TRUE, present |-> FALSE, columns |-> {}, rows |-> <<>>]
TableOf(columns, rows) == [file |-> TRUE, present |-> TRUE, columns |-> columns, rows |-> rows]
Table(rows) == TableOf(ColumnSet, rows)

\* the explicit path argument: None, a path with no file, or a file
PathArgs == {"none", "missing"} \cup FileIds

NoCall == [op |-> "none", arg |-> <<>>, path |-> "none", outcome |-> "none", result |-> <<>>,
           loaded |-> FALSE, source |-> "none", file |-> "none", requests |-> 0,
           cache_written |-> FALSE,
           adapter_requested |-> FALSE, adapter_calls |-> 0, adapter_resolved |-> FALSE]
----------------------------------------------------------------------------
(* The loader.                                                             *)

\* a variant of _persist_hpoa_to_db without the DELETE: the rows are added
\* to those of the table
persist_hpoa_to_db_appending(db, rows) ==
    TableOf(ColumnSet, (IF db.present THEN db.rows ELSE <<>>)
                       \o [i \in 1..Len(rows) |->
                              [c \in ColumnSet |-> get(rows[i], ColumnText[c])]])

\* _persist_hpoa_to_db: in one transaction, the table is created if it is
\* not there, emptied, and filled with row.get(column) of every row
persist_hpoa_to_db(db, rows) ==
    TableOf(ColumnSet, [i \in 1..Len(rows) |-> [c \in ColumnSet |-> get(rows[i], ColumnText[c])]])

\* the table df.to_sql creates: the columns of the DataFrame (of which the
\* model keeps the twelve the queries and HPOA read) and its records
df_table(df) ==
    LET columns == {c \in ColumnSet : ColumnText[c] \in SetOf(df.columns)}
    IN  TableOf(columns,
                [i \in 1..Len(df.records) |->
                    [c \in ColumnSet |-> IF c \in columns THEN df.records[i][ColumnText[c]]
                                         ELSE Missing]])

\* the columns the CREATE INDEX statements name
IndexColumns == {"database_id", "disease_name", "reference"}

\* _persist_df_to_db, from its first line to its return: to_sql replaces the
\* table and commits; a CREATE INDEX over a column the table lacks then
\* raises sqlite3.OperationalError
persist_df_to_db(db, df) ==
    [raised |-> ~(IndexColumns \subseteq df_table(df).columns), db |-> df_table(df)]

\* what writing the cache file can do: write the text; fail before the file
\* is opened; fail after open(cached_path, "w") created or emptied it; fail
\* after a part of the text was written. The failures are swallowed.
WriteOutcomes == {"written", "not_opened", "emptied", "cut"}

\* a part of the text of a file
CutOf(f) == IF f = "fixture" THEN "fixture_cut" ELSE "empty"

\* a variant of cache_write that writes nothing
cache_write_nothing(f, write) == cached_file

\* lines 170-177: the cache file after the download of the file f
cache_write(f, write) ==
    IF ~workdir_location THEN cached_file
    ELSE CASE write = "written" -> f
           [] write = "not_opened" -> cached_file
           [] write = "emptied" -> "empty"
           [] write = "cut" -> CutOf(f)

\* a variant of source_of that tries the cached copy before the environment
\* path
source_of_cache_first(path) ==
    IF path \in FileIds THEN [source |-> "explicit", file |-> path]
    ELSE IF workdir_location /\ cached_file \in FileIds
    THEN [source |-> "cache", file |-> cached_file]
    ELSE IF env_path \in FileIds THEN [source |-> "env", file |-> env_path]
    ELSE [source |-> "remote", file |-> IF remote \in FileIds THEN remote ELSE "none"]

\* the source fetch_and_parse_hpoa reads: the first of the explicit path,
\* AURELIAN_HPOA_PATH and the cached copy that exists, else the download
source_of(path) ==
    IF path \in FileIds THEN [source |-> "explicit", file |-> path]
    ELSE IF env_path \in FileIds THEN [source |-> "env", file |-> env_path]
    ELSE IF workdir_location /\ cached_file \in FileIds
    THEN [source |-> "cache", file |-> cached_file]
    ELSE [source |-> "remote", file |-> IF remote \in FileIds THEN remote ELSE "none"]

\* a variant of download in which a failed request raises nothing and the
\* text is empty
download_swallowing ==
    CASE remote = "manifest_error" -> [raised |-> FALSE, requests |-> 1]
      [] remote = "no_asset" -> [raised |-> FALSE, requests |-> 1]
      [] remote = "asset_error" -> [raised |-> FALSE, requests |-> 2]
      [] OTHER -> [raised |-> FALSE, requests |-> 2]

\* the number of requests sent to the endpoint, and whether one of them
\* raised (raise_for_status, or next() over no asset)
download ==
    CASE remote = "manifest_error" -> [raised |-> TRUE, requests |-> 1]
      [] remote = "no_asset" -> [raised |-> TRUE, requests |-> 1]
      [] remote = "asset_error" -> [raised |-> TRUE, requests |-> 2]
      [] OTHER -> [raised |-> FALSE, requests |-> 2]

\* the text read parsed and persisted: by pandas when it is there, else by
\* the csv module. rows is the list of dicts returned.
parse_and_persist(db, f) ==
    IF pd
    THEN LET df == Parsed[f].df
         IN  IF df.raised THEN [raised |-> TRUE, rows |-> <<>>, db |-> db]
             ELSE LET p == persist_df_to_db(db, df)
                  IN  [raised |-> p.raised, rows |-> IF p.raised THEN <<>> ELSE df.records,
                       db |-> p.db]
    ELSE LET rows == Parsed[f].csv
         IN  [raised |-> FALSE, rows |-> rows, db |-> persist_hpoa_to_db(db, rows)]

\* the requests of the download branch, reached only when no local source exists
download_for(s) == IF s.source = "remote" THEN download ELSE [raised |-> FALSE, requests |-> 0]

\* the text read from the source s: none when the endpoint gave no file
text_of(s) == IF s.file = "none" THEN "empty" ELSE s.file

\* what fetch_and_parse_hpoa returns and leaves, given the source s it
\* resolved, the download d and the parse p of the text read: a failed
\* request raises before the cache file and hpoa.db are touched; the cache
\* file is written before the text is parsed
load_outcome(s, d, p, write) ==
    IF d.raised
    THEN [loaded |-> TRUE, raised |-> TRUE, source |-> s.source, file |-> "none",
          requests |-> d.requests, rows |-> <<>>, db |-> hpoa_db, cached |-> cached_file,
          cache_written |-> FALSE]
    ELSE [loaded |-> TRUE, raised |-> p.raised, source |-> s.source, file |-> text_of(s),
          requests |-> d.requests, rows |-> p.rows, db |-> p.db,
          cached |-> IF s.source = "remote" THEN cache_write(text_of(s), write) ELSE cached_file,
          cache_written |-> s.source = "remote" /\ workdir_location /\ write = "written"]

\* fetch_and_parse_hpoa from the source s
load_from(s, write) ==
    load_outcome(s, download_for(s), parse_and_persist(hpoa_db, text_of(s)), write)

\* fetch_and_parse_hpoa: the source read, the requests sent to the remote
\* endpoint, the rows returned (or raised), hpoa.db and the cache file
\* afterwards. write: what writing the cache file does.
fetch_and_parse_hpoa(path, write) == load_from(source_of(path), write)

\* a variant of need_load that looks only for the table
need_load_when_no_table == ~hpoa_db.file \/ ~hpoa_db.present

\* need_load of ensure_hpoa_db: no database file, no hpoa table, or no row
need_load == ~hpoa_db.file \/ ~hpoa_db.present \/ hpoa_db.rows = <<>>

\* ensure_hpoa_db: the load it performs, if any
ensure_hpoa_db(path, write) ==
    IF need_load
    THEN fetch_and_parse_hpoa(path, write)
    ELSE [loaded |-> FALSE, raised |-> FALSE, source |-> "none", file |-> "none",
          requests |-> 0, rows |-> <<>>, db |-> hpoa_db, cached |-> cached_file,
          cache_written |-> FALSE]
----------------------------------------------------------------------------
(* Inputs.                                                                 *)

\* the most whitespace put before and after an input
MaxPad == 1

RECURSIVE Repeat(_, _)
Repeat(c, n) == IF n = 0 THEN <<>> ELSE <<c>> \o Repeat(c, n - 1)

\* an input with up to MaxPad spaces before it and up to MaxPad tabs after it
Padded(texts) ==
    {Repeat(" ", i) \o t \o Repeat("\t", j) : i \in 0..MaxPad, j \in 0..MaxPad, t \in texts}

\* identifier queries: a prefix, a colon and class characters, in any case,
\* with spaces inside
IdQueries ==
    Padded({ <<"O", "M", "I", "M", ":", "1", "2", "3", "4", "5", "6">>, <<"o", "m", "i", "m", ":", "1", "2", "3", "4", "5", "6">>, <<"O", "m", "i", "m", ":", " ", "1", "2", "3", " ", "4", "5", "6">>, <<"M", "O", "N", "D", "O", ":", "0", "0", "0", "0", "0", "0", "1">>,
             <<"O", "M", "I", "M", ":", "0", "0", "0", "0", "0", "0">>, <<"O", "M", "I", "M", ":", "1", "2", "3", "4", "5">>, <<"o", "r", "p", "h", "a", ":", "7", "9">>, <<"D", "E", "C", "I", "P", "H", "E", "R", ":", "1">> })

\* label queries: no CURIE in them
LabelQueries ==
    Padded({ <<"f", "o", "o">>, <<"F", "O", "O">>, <<"F", "o", "o", " ", "s", "y", "n", "d", "r", "o", "m", "e">>, <<"x", " ", "s">>, <<"f", "_", "o">>, <<"0", "%">>, <<"z", "z", "z">>, <<>> })

\* a CURIE with other words before or after it
MixedQueries ==
    { <<"s", "e", "e", " ", "O", "M", "I", "M", ":", "1", "2", "3", "4", "5", "6">>, <<"O", "M", "I", "M", ":", "1", "2", "3", "4", "5", "6", " ", "s", "y", "n", "d", "r", "o", "m", "e">>, <<"F", "o", "o", " ", "s", "y", "n", "d", "r", "o", "m", "e", " ", "(", "O", "M", "I", "M", ":", "1", "2", "3", "4", "5", "6", ")">>,
      <<"M", "O", "N", "D", "O", ":", "0", "0", "0", "0", "0", "0", "1", " ", "X", " ", "s", "y", "n", "d", "r", "o", "m", "e">>, <<"d", "i", "s", "e", "a", "s", "e", " ", "o", "m", "i", "m", ":", "1", "2", "3", "4", "5", "6", ",", " ", "F", "o", "o">> }

PmidDigits == { <<"1", "1", "1">>, <<"2", "2", "2">>, <<"1", "1">>, <<"3", "3", "3">>, <<"9", "9", "9">> }
PmidInputs == Padded(PmidDigits \cup {<<"P", "M", "I", "D", ":">> \o d : d \in PmidDigits}
                     \cup { <<"P", "M", "I", "D", ":", " ", "1", "1", "1">>, <<"p", "m", "i", "d", ":", "1", "1", "1">> })

HpIdInputs == Padded({ <<"H", "P", ":", "0", "0", "0", "0", "0", "0", "1">>, <<"h", "p", ":", "0", "0", "0", "0", "0", "0", "1">>, <<"H", "P", ":", "0", "0", "0", "0", "0", "0", "2">>, <<"H", "P", ":", "0", "0", "0", "0", "0", "0">>, <<"H", "P", ":", "9", "9", "9", "9", "9", "9", "9">> })
HpLabelInputs == { <<"S", "e", "i", "z", "u", "r", "e">>, <<" ", "s", "e", "i", "z", "u", "r", "e", "\t">>, <<"a", "l", "l">> }


\* the datasets of the evaluation setting: well-formed files
EvalFiles == {"fixture", "variant", "headeronly"}

\* the datasets the environment of LoadSpec holds
SourceFiles == {"fixture", "variant", "headeronly"}

\* the explicit paths of LoadSpec
LoadPaths == {"none", "missing"} \cup SourceFiles
----------------------------------------------------------------------------
(* Operations. Each action is one call, from its first line to its return. *)

\* what writing the cache file does matters only to a download that succeeded
CacheWrites(path) ==
    IF source_of(path).source = "remote" /\ remote \in FileIds /\ workdir_location
    THEN WriteOutcomes ELSE {"written"}

\* the record of a call: e is what ensure_hpoa_db or fetch_and_parse_hpoa
\* did, q the query (it raises, or its rows), h the use of the adapter
Call(op, arg, path, e, q, h) ==
    [op |-> op, arg |-> arg, path |-> path,
     outcome |-> IF e.raised \/ q.raised THEN "error" ELSE "ok",
     result |-> IF e.raised \/ q.raised THEN <<>> ELSE q.rows,
     loaded |-> e.loaded, source |-> e.source, file |-> e.file, requests |-> e.requests,
     cache_written |-> e.cache_written,
     adapter_requested |-> h.requested, adapter_calls |-> h.calls,
     adapter_resolved |-> h.resolved.some]

NoAdapter == [requested |-> FALSE, calls |-> 0, resolved |-> None]

\* a variant of query that returns the rows in the reverse order
query_reversed(db, column, rows) ==
    IF ~db.present \/ column \notin db.columns THEN [raised |-> TRUE, rows |-> <<>>]
    ELSE [raised |-> FALSE, rows |-> [i \in 1..Len(rows) |-> rows[Len(rows) + 1 - i]]]

\* cur.execute of a filter over the table db: sqlite3.OperationalError when
\* the table or the column of the WHERE clause is not there, else the rows
\* that validate
query(db, column, rows) ==
    IF ~db.present \/ column \notin db.columns THEN [raised |-> TRUE, rows |-> <<>>]
    ELSE [raised |-> FALSE, rows |-> rows]

\* HPOADependencies.fetch_and_parse_hpoa(path), called directly
FetchAndParse(path, write) ==
    \E f \in {fetch_and_parse_hpoa(path, write)} :
        /\ hpoa_db' = f.db
        /\ cached_file' = f.cached
        /\ last' = Call("fetch_and_parse_hpoa", <<>>, path, f,
                        [raised |-> FALSE, rows |-> f.rows], NoAdapter)
        /\ UNCHANGED <<env_path, workdir_location, remote, HP_LABEL_CACHE>>

\* HPOADependencies.ensure_hpoa_db(path), called directly
EnsureDb(path, write) ==
    \E e \in {ensure_hpoa_db(path, write)} :
        /\ hpoa_db' = e.db
        /\ cached_file' = e.cached
        /\ last' = Call("ensure_hpoa_db", <<>>, path, e, [raised |-> FALSE, rows |-> <<>>],
                        NoAdapter)
        /\ UNCHANGED <<env_path, workdir_location, remote, HP_LABEL_CACHE>>

\* the column the WHERE clause of filter_hpoa names
label_column(label) == IF q_id_of(label).found THEN "database_id" ELSE "disease_name"

\* filter_hpoa(ctx, label)
FilterHpoa(label, write) ==
    \E e \in {ensure_hpoa_db("none", write)} :
        /\ hpoa_db' = e.db
        /\ cached_file' = e.cached
        /\ last' = Call("filter_hpoa", label, "none", e,
                        query(e.db, label_column(label), filter_hpoa_rows(e.db.rows, label)),
                        NoAdapter)
        /\ UNCHANGED <<env_path, workdir_location, remote, HP_LABEL_CACHE>>

\* filter_hpoa_by_pmid(ctx, pmid)
FilterHpoaByPmid(pmid, write) ==
    \E e \in {ensure_hpoa_db("none", write)} :
        /\ hpoa_db' = e.db
        /\ cached_file' = e.cached
        /\ last' = Call("filter_hpoa_by_pmid", pmid, "none", e,
                        query(e.db, "reference", filter_hpoa_by_pmid_rows(e.db.rows, pmid)),
                        NoAdapter)
        /\ UNCHANGED <<env_path, workdir_location, remote, HP_LABEL_CACHE>>

\* the adapter is not reached when ensure_hpoa_db raised
hp_norm_after(e, hp, beh) ==
    IF e.raised THEN [hp_norm |-> <<>>, cache |-> HP_LABEL_CACHE, calls |-> 0,
                      resolved |-> None, requested |-> FALSE]
    ELSE hp_norm_of(HP_LABEL_CACHE, hp, beh)

\* filter_hpoa_by_hp(ctx, hp); the adapter is reached only after ensure_hpoa_db returned
FilterHpoaByHp(hp, beh, write) ==
    \E e \in {ensure_hpoa_db("none", write)} :
      \E h \in {hp_norm_after(e, hp, beh)} :
        /\ hpoa_db' = e.db
        /\ cached_file' = e.cached
        /\ HP_LABEL_CACHE' = h.cache
        /\ last' = Call("filter_hpoa_by_hp", hp, "none", e,
                        query(e.db, "hpo_id", filter_hpoa_by_hp_rows(e.db.rows, h.hp_norm)), h)
        /\ UNCHANGED <<env_path, workdir_location, remote>>

\* Outside the program: the variable is set or unset, files appear or are
\* deleted, the endpoint changes what it serves, hpoa.db is deleted or left
\* as a file without the table.
EnvironmentChange ==
    /\ env_path' \in {"unset", "missing"} \cup SourceFiles
    /\ cached_file' \in IF workdir_location THEN {"absent"} \cup SourceFiles ELSE {"absent"}
    /\ remote' \in RemoteFailures \cup SourceFiles
    /\ hpoa_db' \in {hpoa_db, NoDb, NoTable}
    /\ last' = NoCall
    /\ UNCHANGED <<workdir_location, HP_LABEL_CACHE>>

\* the calls above run one after the other, with no other thread
Sequential == UNCHANGED <<pd, tasks, reads, onto, agent>>

\* the first completed load of a behaviour: the dataset read, hpoa.db after
\* it, and whether another dataset was loaded since
NoLoad == [file |-> "none", db |-> NoDb, between |-> FALSE]

RecordFirstLoad ==
    first_load' =
        IF last'.loaded /\ last'.outcome = "ok" /\ first_load = NoLoad
        THEN [file |-> last'.file, db |-> hpoa_db', between |-> FALSE]
        ELSE IF last'.loaded /\ last'.outcome = "ok" /\ last'.file # first_load.file
        THEN [first_load EXCEPT !.between = TRUE]
        ELSE first_load

\* no call in progress in another thread
NoTasks == << >>
----------------------------------------------------------------------------
(* The category classifier and the ontology access helpers.                *)

\* hp_adapter.children(curie) of a reachable ontology
adapter_children(curie) ==
    IF curie = CATEGORY_ROOT THEN <<HP_GROWTH_DELAY, HP_GROWTH, HP_NERVOUS>> ELSE <<>>

\* hp_adapter.ancestors(curie): reflexive; nothing for an unknown id
adapter_ancestors(curie) ==
    CASE curie = HP_SEIZURE -> <<HP_SEIZURE, HP_NERVOUS, CATEGORY_ROOT, HP_ALL>>
      [] curie \in {HP_GROWTH_DELAY, HP_GROWTH, HP_NERVOUS} -> <<curie, CATEGORY_ROOT, HP_ALL>>
      [] curie = CATEGORY_ROOT -> <<CATEGORY_ROOT, HP_ALL>>
      [] curie = HP_ALL -> <<HP_ALL>>
      [] OTHER -> <<>>

\* hp_adapter.outgoing_relationships(curie): (predicate, object) pairs
adapter_outgoing(curie) ==
    CASE curie = HP_SEIZURE -> << <<IS_A, HP_NERVOUS>> >>
      [] curie \in {HP_GROWTH_DELAY, HP_GROWTH, HP_NERVOUS} -> << <<IS_A, CATEGORY_ROOT>> >>
      [] curie = CATEGORY_ROOT -> << <<IS_A, HP_ALL>> >>
      [] OTHER -> <<>>

\* the adapter during one classifier call: get_hp_adapter may raise; the
\* adapter may have no children method, or the method raises; label(),
\* ancestors() and outgoing_relationships() may raise; the two searches
ChildrenOutcomes == {"returns", "unsupported", "raises"}

ClassifierSearches ==
    {[raises |-> TRUE, ids |-> <<>>]} \cup
    {[raises |-> FALSE, ids |-> r] : r \in {<<>>, <<HP_SEIZURE>>, <<HP_NERVOUS>>, <<MONDO_HIT, HP_ALL>>}}

ClassifierBehaviours ==
    {b \in [unavailable : BOOLEAN, exact : ClassifierSearches, partial : ClassifierSearches,
            label_raises : BOOLEAN, children : ChildrenOutcomes,
            ancestors_raises : BOOLEAN, outgoing_raises : BOOLEAN] :
        /\ b.unavailable => ( /\ b.exact.raises /\ b.partial.raises /\ b.label_raises
                              /\ b.children = "raises" /\ b.ancestors_raises
                              /\ b.outgoing_raises )
        /\ (~b.exact.raises /\ b.exact.ids # <<>>) => b.partial.raises}

\* the five module-level dicts
Caches == [label |-> HP_LABEL_CACHE, ancestors |-> HP_ANCESTORS_CACHE,
           outgoing |-> HP_OUTGOING_CACHE, children |-> HP_CHILDREN_CACHE,
           category |-> CATEGORY_LABEL_TO_ID]

\* _hp_label over the dicts c
label_in(c, curie, beh, l) == [val |-> l.val, c |-> [c EXCEPT !.label = l.cache], calls |-> l.calls]
hp_label_c(c, curie, beh) == label_in(c, curie, beh, hp_label(c.label, curie, beh))

\* a variant of hp_ancestors that stores nothing when the adapter raises
hp_ancestors_forgetting(c, curie, beh) ==
    IF curie \in DOMAIN c.ancestors
    THEN [val |-> c.ancestors[curie], c |-> c, calls |-> 0]
    ELSE IF beh.ancestors_raises THEN [val |-> <<>>, c |-> c, calls |-> 1]
    ELSE [val |-> adapter_ancestors(curie),
          c |-> [c EXCEPT !.ancestors = (curie :> adapter_ancestors(curie)) @@ @], calls |-> 1]

\* _hp_ancestors: read-through cache over hp_adapter.ancestors
hp_ancestors(c, curie, beh) ==
    IF curie \in DOMAIN c.ancestors
    THEN [val |-> c.ancestors[curie], c |-> c, calls |-> 0]
    ELSE IF beh.ancestors_raises
    THEN [val |-> <<>>, c |-> [c EXCEPT !.ancestors = (curie :> <<>>) @@ @], calls |-> 1]
    ELSE [val |-> adapter_ancestors(curie),
          c |-> [c EXCEPT !.ancestors = (curie :> adapter_ancestors(curie)) @@ @], calls |-> 1]

\* _hp_outgoing: read-through cache over hp_adapter.outgoing_relationships
hp_outgoing(c, curie, beh) ==
    IF curie \in DOMAIN c.outgoing
    THEN [val |-> c.outgoing[curie], c |-> c, calls |-> 0]
    ELSE IF beh.outgoing_raises
    THEN [val |-> <<>>, c |-> [c EXCEPT !.outgoing = (curie :> <<>>) @@ @], calls |-> 1]
    ELSE [val |-> adapter_outgoing(curie),
          c |-> [c EXCEPT !.outgoing = (curie :> adapter_outgoing(curie)) @@ @], calls |-> 1]

\* a variant of hp_children that stores nothing when the adapter gives no list
hp_children_forgetting(c, curie, beh) ==
    IF curie \in DOMAIN c.children
    THEN [val |-> c.children[curie], c |-> c, calls |-> 0]
    ELSE IF beh.children # "returns" THEN [val |-> <<>>, c |-> c, calls |-> 0]
    ELSE [val |-> adapter_children(curie),
          c |-> [c EXCEPT !.children = (curie :> adapter_children(curie)) @@ @], calls |-> 1]

\* _hp_children: read-through cache over hp_adapter.children, when the
\* adapter has the method
hp_children(c, curie, beh) ==
    IF curie \in DOMAIN c.children
    THEN [val |-> c.children[curie], c |-> c, calls |-> 0]
    ELSE IF beh.children = "unsupported"
    THEN [val |-> <<>>, c |-> [c EXCEPT !.children = (curie :> <<>>) @@ @], calls |-> 0]
    ELSE IF beh.children = "raises"
    THEN [val |-> <<>>, c |-> [c EXCEPT !.children = (curie :> <<>>) @@ @], calls |-> 1]
    ELSE [val |-> adapter_children(curie),
          c |-> [c EXCEPT !.children = (curie :> adapter_children(curie)) @@ @], calls |-> 1]

\* the text of an optional label: (label or "")
text_or_empty(v) == IF v.some THEN v.val ELSE <<>>

\* a result of get_category_root: {id, label} or {error}; raised when
\* get_hp_adapter raised. via is the branch that returned and term the
\* search hit of the fallback
NotFound(c, calls, term) ==
    [raised |-> FALSE, found |-> FALSE, id |-> <<>>, label |-> None, via |-> "none",
     term |-> term, c |-> c, calls |-> calls]

Raised(c) ==
    [raised |-> TRUE, found |-> FALSE, id |-> <<>>, label |-> None, via |-> "none",
     term |-> None, c |-> c, calls |-> 0]

\* return {"id": cid, "label": _hp_label(hp, cid)}, l being that label
found_with(cid, calls, via, term, l) ==
    [raised |-> FALSE, found |-> TRUE, id |-> cid, label |-> l.val, via |-> via,
     term |-> term, c |-> l.c, calls |-> calls + l.calls]

Found(c, cid, calls, via, term, beh) ==
    found_with(cid, calls, via, term, hp_label_c(c, cid, beh))

\* lines 341-342 and 352-353: the key is stored, the category returned
store_and_return(c, key, cid, calls, via, term, beh) ==
    Found([c EXCEPT !.category = (key :> cid) @@ @], cid, calls, via, term, beh)

\* line 340: lab and (lab == key or key in lab)
label_matches(lab, key) == lab # <<>> /\ (lab = key \/ contains(lab, key))

\* the loop of lines 338-342: the first child whose label matches the key
RECURSIVE match_children(_, _, _, _, _)
RECURSIVE match_child(_, _, _, _, _)
match_child(children, key, calls, beh, l) ==
    IF label_matches(lower(strip(text_or_empty(l.val))), key)
    THEN [hit |-> Some(Head(children)), c |-> l.c, calls |-> calls + l.calls]
    ELSE match_children(Tail(children), key, l.c, calls + l.calls, beh)

match_children(children, key, c, calls, beh) ==
    IF children = <<>> THEN [hit |-> None, c |-> c, calls |-> calls]
    ELSE match_child(children, key, calls, beh, hp_label_c(c, Head(children), beh))

\* a variant of first_category that takes the first ancestor, a child or not
first_category_among_ancestors(children, anc, term) ==
    IF anc # <<>> THEN Some(anc[1]) ELSE None

\* the loop of lines 350-353: the first child that is the term or one of
\* its ancestors
first_category(children, anc, term) ==
    IF \E i \in 1..Len(children) : children[i] \in SetOf(anc) \/ term = children[i]
    THEN Some(children[CHOOSE i \in 1..Len(children) :
                         /\ children[i] \in SetOf(anc) \/ term = children[i]
                         /\ \A j \in 1..(i - 1) : ~(children[j] \in SetOf(anc) \/ term = children[j])])
    ELSE None

\* lines 348-357, a being _hp_ancestors(hp, term)
from_ancestors(key, children, term, calls, beh, a) ==
    IF first_category(children, a.val, term).some
    THEN store_and_return(a.c, key, first_category(children, a.val, term).val,
                          calls + a.calls, "ancestors", Some(term), beh)
    ELSE NotFound(a.c, calls + a.calls, Some(term))

\* lines 344-357, r being _resolve_hp_term_by_label(hp, category_label)
from_search(c, key, children, calls, beh, r) ==
    IF r.resolved.some
    THEN from_ancestors(key, children, r.resolved.val, r.calls, beh,
                        hp_ancestors([c EXCEPT !.label = r.cache], r.resolved.val, beh))
    ELSE NotFound([c EXCEPT !.label = r.cache], r.calls, None)

\* the adapter calls of lines 344-345 added to those made before
counted(calls, r) == [r EXCEPT !.calls = calls + @]

\* lines 337-357, m being the outcome of the loop over the children
from_children(key, category_label, children, beh, m) ==
    IF m.hit.some THEN store_and_return(m.c, key, m.hit.val, m.calls, "label", None, beh)
    ELSE from_search(m.c, key, children, m.calls, beh,
                     counted(m.calls, resolve_hp_term_by_label(m.c.label, category_label, beh)))

\* lines 331-357, ch being _hp_children(hp, CATEGORY_ROOT)
with_children(key, category_label, beh, ch) ==
    from_children(key, category_label, ch.val, beh,
                  match_children(ch.val, key, ch.c, ch.calls, beh))

\* get_category_root over the dicts c
get_category_root(c, category_label, beh) ==
    IF beh.unavailable THEN Raised(c)
    ELSE IF lower(strip(category_label)) \in DOMAIN c.category
    THEN Found(c, c.category[lower(strip(category_label))], 0, "cache", None, beh)
    ELSE with_children(lower(strip(category_label)), category_label, beh,
                       hp_children(c, CATEGORY_ROOT, beh))

\* what the children capability did in a call of get_category_root
children_outcome(c, category_label, beh) ==
    IF beh.unavailable \/ lower(strip(category_label)) \in DOMAIN c.category THEN "unused"
    ELSE IF CATEGORY_ROOT \in DOMAIN c.children THEN "cached"
    ELSE beh.children

\* lines 365-373, a being _hp_ancestors(hp, hpo_id)
in_ancestors(root, a) ==
    [raised |-> FALSE, val |-> root.id \in SetOf(a.val), root |-> root, c |-> a.c,
     calls |-> root.calls + a.calls]

\* a variant of in_category that leaves the answer to the ancestors
in_category_by_ancestors(hpo_id, beh, root) ==
    IF root.raised THEN [raised |-> TRUE, val |-> FALSE, root |-> root, c |-> root.c, calls |-> 0]
    ELSE IF ~root.found
    THEN [raised |-> FALSE, val |-> FALSE, root |-> root, c |-> root.c, calls |-> root.calls]
    ELSE in_ancestors(root, hp_ancestors(root.c, hpo_id, beh))

\* lines 364-373, root being get_category_root(ctx, category_label)
in_category(hpo_id, beh, root) ==
    IF root.raised THEN [raised |-> TRUE, val |-> FALSE, root |-> root, c |-> root.c, calls |-> 0]
    ELSE IF ~root.found
    THEN [raised |-> FALSE, val |-> FALSE, root |-> root, c |-> root.c, calls |-> root.calls]
    ELSE IF hpo_id = root.id
    THEN [raised |-> FALSE, val |-> TRUE, root |-> root, c |-> root.c, calls |-> root.calls]
    ELSE in_ancestors(root, hp_ancestors(root.c, hpo_id, beh))

\* is_hpo_in_category over the dicts c
is_hpo_in_category(c, hpo_id, category_label, beh) ==
    in_category(hpo_id, beh, get_category_root(c, category_label, beh))

\* lines 290-303: one dict of parents per outgoing relationship
RECURSIVE parents_of(_, _, _, _, _)
RECURSIVE parent_entry(_, _, _, _, _, _)
RECURSIVE parent_entry_with(_, _, _, _, _, _, _)
parent_entry_with(pairs, acc, calls, beh, rel, parent, pl) ==
    parents_of(Tail(pairs),
               Append(acc, [rel |-> Head(pairs)[1], rel_label |-> rel.val,
                            parent |-> Head(pairs)[2], parent_label |-> pl.val]),
               pl.c, calls + rel.calls + pl.calls, beh)

parent_entry(pairs, acc, c, calls, beh, rel) ==
    parent_entry_with(pairs, acc, calls, beh, rel, Head(pairs)[2],
                      hp_label_c(rel.c, Head(pairs)[2], beh))

parents_of(pairs, acc, c, calls, beh) ==
    IF pairs = <<>> THEN [val |-> acc, c |-> c, calls |-> calls]
    ELSE parent_entry(pairs, acc, c, calls, beh, hp_label_c(c, Head(pairs)[1], beh))

\* line 315, l being _hp_label(hp, term_id)
hierarchy_of(term_id, parents, ancestors, calls, l) ==
    [raised |-> FALSE, error |-> FALSE, id |-> term_id, label |-> l.val,
     parents |-> parents, ancestors |-> ancestors, c |-> l.c, calls |-> calls + l.calls]

\* lines 309-315, a being _hp_ancestors(hp, term_id)
with_ancestors(term_id, parents, calls, beh, a) ==
    hierarchy_of(term_id, parents, a.val, calls + a.calls, hp_label_c(a.c, term_id, beh))

\* lines 290-315, p being the parents
with_parents(term_id, beh, p) ==
    with_ancestors(term_id, p.val, p.calls, beh, hp_ancestors(p.c, term_id, beh))

\* lines 290-315, o being _hp_outgoing(hp, term_id)
with_outgoing(term_id, calls, beh, o) ==
    with_parents(term_id, beh, parents_of(o.val, <<>>, o.c, calls + o.calls, beh))

\* lines 286-315, term being the resolved term or None
with_term(c, term, calls, beh) ==
    IF ~term.some
    THEN [raised |-> FALSE, error |-> TRUE, id |-> <<>>, label |-> None, parents |-> <<>>,
          ancestors |-> <<>>, c |-> c, calls |-> calls]
    ELSE with_outgoing(term.val, calls, beh, hp_outgoing(c, term.val, beh))

\* line 285, r being _resolve_hp_term_by_label(hp, label)
with_resolved(c, beh, r) == with_term([c EXCEPT !.label = r.cache], r.resolved, r.calls, beh)

\* hierarchy_hp over the dicts c
hierarchy_hp(c, label, beh) ==
    IF beh.unavailable
    THEN [raised |-> TRUE, error |-> FALSE, id |-> <<>>, label |-> None, parents |-> <<>>,
          ancestors |-> <<>>, c |-> c, calls |-> 0]
    ELSE IF startswith(upper(strip(label)), <<"H", "P", ":">>)
    THEN with_term(c, Some(strip(label)), 0, beh)
    ELSE with_resolved(c, beh, resolve_hp_term_by_label(c.label, label, beh))

----------------------------------------------------------------------------
(* The classifier and the helpers as calls on the program state.           *)

OntoInit ==
    /\ HP_ANCESTORS_CACHE = << >>
    /\ HP_OUTGOING_CACHE = << >>
    /\ HP_CHILDREN_CACHE = << >>
    /\ CATEGORY_LABEL_TO_ID = << >>

\* the five dicts after a call
StoreCaches(c) ==
    /\ HP_LABEL_CACHE' = c.label
    /\ HP_ANCESTORS_CACHE' = c.ancestors
    /\ HP_OUTGOING_CACHE' = c.outgoing
    /\ HP_CHILDREN_CACHE' = c.children
    /\ CATEGORY_LABEL_TO_ID' = c.category

\* what a call of a helper or of the classifier did: the dicts it found,
\* how the adapter behaved, what it returned and how often it called the
\* adapter
OntoCall(op, arg, hpo_id, beh, outcome, val, calls) ==
    [op |-> op, arg |-> arg, hpo_id |-> hpo_id, outcome |-> outcome, val |-> val,
     adapter_calls |-> calls, before |-> Caches, unavailable |-> beh.unavailable,
     children |-> IF op \in {"get_category_root", "is_hpo_in_category"}
                  THEN children_outcome(Caches, arg, beh) ELSE "unused",
     n |-> IF last.op = "none" THEN 1 ELSE last.n + 1]

\* the calls made so far
CallsMade == IF last.op = "none" THEN 0 ELSE last.n

OntoUnchanged == UNCHANGED <<env, hpoa_db, tasks, reads, first_load, agent>>

\* _hp_label(hp, curie), hp being an adapter
HpLabel(curie, beh) ==
    /\ ~beh.unavailable
    /\ \E r \in {hp_label_c(Caches, curie, beh)} :
          /\ StoreCaches(r.c)
          /\ last' = OntoCall("hp_label", curie, <<>>, beh, "ok", r.val, r.calls)
    /\ OntoUnchanged

\* _hp_ancestors(hp, curie)
HpAncestors(curie, beh) ==
    /\ ~beh.unavailable
    /\ \E r \in {hp_ancestors(Caches, curie, beh)} :
          /\ StoreCaches(r.c)
          /\ last' = OntoCall("hp_ancestors", curie, <<>>, beh, "ok", r.val, r.calls)
    /\ OntoUnchanged

\* _hp_outgoing(hp, curie)
HpOutgoing(curie, beh) ==
    /\ ~beh.unavailable
    /\ \E r \in {hp_outgoing(Caches, curie, beh)} :
          /\ StoreCaches(r.c)
          /\ last' = OntoCall("hp_outgoing", curie, <<>>, beh, "ok", r.val, r.calls)
    /\ OntoUnchanged

\* _hp_children(hp, curie)
HpChildren(curie, beh) ==
    /\ ~beh.unavailable
    /\ \E r \in {hp_children(Caches, curie, beh)} :
          /\ StoreCaches(r.c)
          /\ last' = OntoCall("hp_children", curie, <<>>, beh, "ok", r.val, r.calls)
    /\ OntoUnchanged

\* the dict get_category_root returns
root_dict(r) == [found |-> r.found, id |-> r.id, label |-> r.label, via |-> r.via, term |-> r.term]

\* get_category_root(ctx, category_label)
GetCategoryRoot(category_label, beh) ==
    /\ \E r \in {get_category_root(Caches, category_label, beh)} :
          /\ StoreCaches(r.c)
          /\ last' = OntoCall("get_category_root", category_label, <<>>, beh,
                              IF r.raised THEN "raised" ELSE "ok", root_dict(r), r.calls)
    /\ OntoUnchanged

\* is_hpo_in_category(ctx, hpo_id, category_label)
IsHpoInCategory(hpo_id, category_label, beh) ==
    /\ \E r \in {is_hpo_in_category(Caches, hpo_id, category_label, beh)} :
          /\ StoreCaches(r.c)
          /\ last' = OntoCall("is_hpo_in_category", category_label, hpo_id, beh,
                              IF r.raised THEN "raised" ELSE "ok",
                              [in |-> r.val, root |-> root_dict(r.root)], r.calls)
    /\ OntoUnchanged

\* hierarchy_hp(ctx, label)
HierarchyHp(label, beh) ==
    /\ \E r \in {hierarchy_hp(Caches, label, beh)} :
          /\ StoreCaches(r.c)
          /\ last' = OntoCall("hierarchy_hp", label, <<>>, beh,
                              IF r.raised THEN "raised" ELSE "ok",
                              [error |-> r.error, id |-> r.id, label |-> r.label,
                               parents |-> r.parents, ancestors |-> r.ancestors], r.calls)
    /\ OntoUnchanged

\* the inputs of the classifier calls: category labels, (term, category)
\* pairs, terms by id or by label, and ids for the helpers
CategoryLabels == { <<"g", "r", "o", "w", "t", "h">>, <<" ", "N", "e", "r", "v", "o", "u", "s", " ", "S", "y", "s", "t", "e", "m", " ">>, <<"s", "e", "i", "z", "u", "r", "e">>, <<"z", "z", "z">> }
TermsAndCategories ==
    { <<HP_SEIZURE, <<" ", "N", "e", "r", "v", "o", "u", "s", " ", "S", "y", "s", "t", "e", "m", " ">>>>, <<HP_SEIZURE, <<"g", "r", "o", "w", "t", "h">>>>,
      <<HP_NERVOUS, <<" ", "N", "e", "r", "v", "o", "u", "s", " ", "S", "y", "s", "t", "e", "m", " ">>>>, <<HP_UNKNOWN, <<"g", "r", "o", "w", "t", "h">>>>,
      <<HP_SEIZURE, <<"z", "z", "z">>>> }
HierarchyLabels == {HP_SEIZURE, HP_UNKNOWN, <<"s", "e", "i", "z", "u", "r", "e">>}
HelperCuries == {HP_SEIZURE, HP_UNKNOWN, CATEGORY_ROOT}

\* the behaviours that differ for a call: a helper calls one method of the
\* adapter, get_category_root never asks for relationships, hierarchy_hp
\* never asks for children
LabelBehaviours ==
    {b \in ClassifierBehaviours :
        /\ ~b.unavailable /\ b.exact.raises /\ b.partial.raises /\ b.children = "raises"
        /\ b.ancestors_raises /\ b.outgoing_raises}
AncestorsBehaviours ==
    {b \in ClassifierBehaviours :
        /\ ~b.unavailable /\ b.exact.raises /\ b.partial.raises /\ b.children = "raises"
        /\ b.label_raises /\ b.outgoing_raises}
OutgoingBehaviours ==
    {b \in ClassifierBehaviours :
        /\ ~b.unavailable /\ b.exact.raises /\ b.partial.raises /\ b.children = "raises"
        /\ b.label_raises /\ b.ancestors_raises}
ChildrenBehaviours ==
    {b \in ClassifierBehaviours :
        /\ ~b.unavailable /\ b.exact.raises /\ b.partial.raises
        /\ b.label_raises /\ b.ancestors_raises /\ b.outgoing_raises}
CategoryBehaviours == {b \in ClassifierBehaviours : b.outgoing_raises}
HierarchyBehaviours == {b \in ClassifierBehaviours : b.children = "raises"}

----------------------------------------------------------------------------
(* The agent: tool budgets and the shared HTTP client.                     *)

\* two of the tools of simple_hpoa_agent: one that asks get_client for the
\* shared client, one that does not
Tools == {"get_omim_terms", "pubmed_search_pmids"}

\* the max_calls of their ToolLimiter (hpoa_agent.py lines 203 and 209)
max_calls(tool) == IF tool = "pubmed_search_pmids" THEN 5 ELSE 3

\* get_omim_terms awaits get_client() before its request (hpoa_tools.py line 82)
uses_client(tool) == tool = "get_omim_terms"

\* stop_after_attempt(3)
MaxAttempts == 3

\* the wrapper calls the model makes in one request, and the clients created
MaxRequestCalls == 4
MaxClients == 2

\* a worker thread with no request
IdleSession == [pc |-> "idle", attempt |-> 0, made |-> [tool \in Tools |-> 0],
                inflight |-> "none", using |-> 0]

AgentInit ==
    /\ limiter_calls = [tool \in Tools |-> 0]
    /\ invoked = [tool \in Tools |-> 0]
    /\ async_client = 0
    /\ clients = 0
    /\ closed = {}
    /\ sessions = [t \in Threads |-> IdleSession]
    /\ last_tool = [op |-> "none"]

\* a variant of wrapper that tests the budget and does not count the call
wrapper_not_counting(calls, tool) ==
    [invoke |-> calls[tool] < max_calls(tool), calls |-> calls]

\* ToolLimiter.wrap.wrapper up to the await of self.func: no await separates
\* the test from the increment
wrapper(calls, tool) ==
    IF calls[tool] >= max_calls(tool) THEN [invoke |-> FALSE, calls |-> calls]
    ELSE [invoke |-> TRUE, calls |-> [calls EXCEPT ![tool] = @ + 1]]

\* get_client: the shared client, created when the reference is None
get_client(client, n) ==
    IF client = 0 THEN [client |-> n + 1, clients |-> n + 1]
    ELSE [client |-> client, clients |-> n]

\* close_client: aclose() is called on the shared client, if any, and the
\* reference is reset in the finally, whether aclose() raised or not
close_client(client, cl) ==
    [client |-> 0, closed |-> IF client # 0 THEN cl \cup {client} ELSE cl]

\* the wrapper calls made so far in the request of thread t
MadeBy(t) == sessions[t].made["get_omim_terms"] + sessions[t].made["pubmed_search_pmids"]

AgentUnchanged ==
    UNCHANGED <<env, hpoa_db, HP_LABEL_CACHE, last, tasks, reads, first_load, onto>>

\* get_info calls call_agent_with_retry: the first attempt starts run_sync
StartRequest(t) ==
    /\ sessions[t].pc = "idle"
    /\ sessions' = [sessions EXCEPT ![t] = [IdleSession EXCEPT !.pc = "running", !.attempt = 1]]
    /\ UNCHANGED <<limiter_calls, invoked, async_client, clients, closed, last_tool>>
    /\ AgentUnchanged

\* the run calls a tool: the wrapper answers with the error dict or counts
\* the call and awaits the tool, which runs up to its first request
WrapperCall(t, tool) ==
    /\ sessions[t].pc = "running" /\ sessions[t].inflight = "none"
    /\ MadeBy(t) < MaxRequestCalls
    /\ \E w \in {wrapper(limiter_calls, tool)} :
       \E g \in {IF w.invoke /\ uses_client(tool) THEN get_client(async_client, clients)
                 ELSE [client |-> async_client, clients |-> clients]} :
          /\ g.clients <= MaxClients
          /\ limiter_calls' = w.calls
          /\ invoked' = IF w.invoke THEN [invoked EXCEPT ![tool] = @ + 1] ELSE invoked
          /\ async_client' = g.client
          /\ clients' = g.clients
          /\ sessions' = [sessions EXCEPT
                             ![t].made[tool] = @ + 1,
                             ![t].inflight = IF w.invoke THEN tool ELSE "none",
                             ![t].using = IF w.invoke /\ uses_client(tool) THEN g.client ELSE 0]
          /\ last_tool' = [op |-> "call", t |-> t, tool |-> tool,
                           answer |-> IF w.invoke THEN "executed" ELSE "exceeded",
                           calls_before |-> limiter_calls[tool],
                           made_before |-> sessions[t].made[tool]]
    /\ UNCHANGED closed
    /\ AgentUnchanged

\* the awaited tool returns or raises
ToolEnds(t, raised) ==
    /\ sessions[t].inflight # "none"
    /\ sessions' = [sessions EXCEPT ![t].inflight = "none", ![t].using = 0]
    /\ last_tool' = [op |-> "return", t |-> t, tool |-> sessions[t].inflight, raised |-> raised]
    /\ UNCHANGED <<limiter_calls, invoked, async_client, clients, closed>>
    /\ AgentUnchanged

\* how an attempt ends: run_sync returns, raises ModelHTTPError or raises
\* another exception
AttemptOutcomes == {"return", "ModelHTTPError", "error"}

\* an attempt of call_agent_with_retry ends: the finally runs close_client,
\* and tenacity calls the function again after a ModelHTTPError, up to
\* MaxAttempts attempts
AttemptEnds(t, outcome, close_raises) ==
    /\ sessions[t].pc = "running" /\ sessions[t].inflight = "none"
    /\ \E c \in {close_client(async_client, closed)} :
          /\ async_client' = c.client
          /\ closed' = c.closed
    /\ sessions' = [sessions EXCEPT ![t] =
                       IF outcome = "ModelHTTPError" /\ sessions[t].attempt < MaxAttempts
                       THEN [@ EXCEPT !.attempt = @ + 1]
                       ELSE IdleSession]
    /\ last_tool' = [op |-> "close", t |-> t, outcome |-> outcome, close_raises |-> close_raises,
                     had |-> async_client]
    /\ UNCHANGED <<limiter_calls, invoked, clients>>
    /\ AgentUnchanged

----------------------------------------------------------------------------
(* Spec: filter_hpoa and filter_hpoa_by_pmid over a dataset named by       *)
(* AURELIAN_HPOA_PATH (the setting of hpoa_evals.py).                      *)

Init ==
    /\ pd \in BOOLEAN
    /\ env_path \in EvalFiles
    /\ workdir_location = TRUE
    /\ cached_file = "absent"
    /\ remote = "manifest_error"
    /\ hpoa_db = NoDb
    /\ HP_LABEL_CACHE = << >>
    /\ last = NoCall
    /\ tasks = NoTasks
    /\ reads = << >>
    /\ first_load = NoLoad
    /\ OntoInit /\ AgentInit

Next ==
    \/ \E label \in IdQueries \cup LabelQueries \cup MixedQueries :
          FilterHpoa(label, "written") /\ Sequential /\ UNCHANGED first_load
    \/ \E pmid \in PmidInputs :
          FilterHpoaByPmid(pmid, "written") /\ Sequential /\ UNCHANGED first_load

Spec == Init /\ [][Next]_vars

----------------------------------------------------------------------------
(* HpSpec: filter_hpoa_by_hp over the same datasets, with every behaviour  *)
(* of the ontology adapter.                                                *)

HpNext ==
    \/ \E hp \in HpIdInputs : \E beh \in {b \in AdapterBehaviours : b.exact.ids = <<HP_SEIZURE>>} :
          FilterHpoaByHp(hp, beh, "written") /\ Sequential /\ UNCHANGED first_load
    \/ \E hp \in HpLabelInputs : \E beh \in AdapterBehaviours :
          FilterHpoaByHp(hp, beh, "written") /\ Sequential /\ UNCHANGED first_load

HpSpec == Init /\ [][HpNext]_vars

----------------------------------------------------------------------------
(* LoadSpec: the loader over every combination of dataset sources, with a  *)
(* few queries.                                                            *)

LoadInit ==
    /\ pd \in BOOLEAN
    /\ env_path \in {"unset", "missing"} \cup SourceFiles
    /\ workdir_location \in BOOLEAN
    /\ cached_file \in IF workdir_location THEN {"absent"} \cup SourceFiles ELSE {"absent"}
    /\ remote \in RemoteFailures \cup SourceFiles
    /\ hpoa_db = NoDb
    /\ HP_LABEL_CACHE = << >>
    /\ last = NoCall
    /\ tasks = NoTasks
    /\ reads = << >>
    /\ first_load = NoLoad
    /\ OntoInit /\ AgentInit

LoadNext ==
    \/ \E path \in LoadPaths : \E w \in CacheWrites(path) :
          FetchAndParse(path, w) /\ Sequential /\ UNCHANGED first_load
    \/ \E path \in LoadPaths : \E w \in CacheWrites(path) :
          EnsureDb(path, w) /\ Sequential /\ UNCHANGED first_load
    \/ \E label \in { <<"O", "M", "I", "M", ":", "1", "2", "3", "4", "5", "6">>, <<"O", "M", "I", "M", ":", "0", "0", "0", "0", "0", "0">>, <<"f", "o", "o">> } :
          \E w \in CacheWrites("none") :
          FilterHpoa(label, w) /\ Sequential /\ UNCHANGED first_load
    \/ \E pmid \in { <<"P", "M", "I", "D", ":", "1", "1", "1">>, <<"9", "9", "9">> } :
          \E w \in CacheWrites("none") :
          FilterHpoaByPmid(pmid, w) /\ Sequential /\ UNCHANGED first_load
    \/ \E hp \in { <<"H", "P", ":", "0", "0", "0", "0", "0", "0", "1">>, <<"H", "P", ":", "9", "9", "9", "9", "9", "9", "9">> } :
          \E beh \in {b \in AdapterBehaviours : b.unavailable} :
          \E w \in CacheWrites("none") :
          FilterHpoaByHp(hp, beh, w) /\ Sequential /\ UNCHANGED first_load
    \/ EnvironmentChange /\ Sequential /\ UNCHANGED first_load

LoadSpec == LoadInit /\ [][LoadNext]_vars

----------------------------------------------------------------------------
(* ParseSpec: datasets of every shape loaded through the explicit path by  *)
(* either reader, and queried.                                             *)

ParseInit ==
    /\ pd \in BOOLEAN
    /\ env_path = "unset"
    /\ workdir_location = TRUE
    /\ cached_file = "absent"
    /\ remote = "manifest_error"
    /\ hpoa_db = NoDb
    /\ HP_LABEL_CACHE = << >>
    /\ last = NoCall
    /\ tasks = NoTasks
    /\ reads = << >>
    /\ first_load = NoLoad
    /\ OntoInit /\ AgentInit

ParseNext ==
    \/ \E path \in FileIds : FetchAndParse(path, "written") /\ Sequential /\ RecordFirstLoad
    \/ \E path \in FileIds : EnsureDb(path, "written") /\ Sequential /\ RecordFirstLoad
    \/ \E label \in { <<"O", "M", "I", "M", ":", "1", "2", "3", "4", "5", "6">>, <<"f", "o", "o">> } :
          FilterHpoa(label, "written") /\ Sequential /\ RecordFirstLoad
    \/ \E pmid \in { <<"P", "M", "I", "D", ":", "1", "1", "1">> } :
          FilterHpoaByPmid(pmid, "written") /\ Sequential /\ RecordFirstLoad
    \/ \E hp \in { <<"H", "P", ":", "0", "0", "0", "0", "0", "0", "1">> } :
          \E beh \in {b \in AdapterBehaviours : b.unavailable} :
          FilterHpoaByHp(hp, beh, "written") /\ Sequential /\ RecordFirstLoad

ParseSpec == ParseInit /\ [][ParseNext]_vars

----------------------------------------------------------------------------
(* ConcSpec: calls in concurrent threads (the Gradio handler runs each     *)
(* chat request in a worker thread). A step is one committed transaction   *)
(* on hpoa.db, or the part of a call between two of them.                  *)


\* a thread that has made no call yet
Idle == [kind |-> "none", pc |-> "idle", file |-> "none", loaded |-> FALSE, replaced |-> FALSE]

\* where a call goes once the table is loaded: a filter runs its SELECT
AfterLoad(kind) == IF kind = "filter" THEN "query" ELSE "done"

\* a filter is called: ensure_hpoa_db up to its need_load test (lines 201-219)
Check(t) ==
    /\ tasks[t].pc = "idle"
    /\ tasks' = [tasks EXCEPT ![t] = [Idle EXCEPT !.kind = "filter",
                                                  !.pc = IF need_load THEN "fetch" ELSE "query"]]
    /\ UNCHANGED <<env, hpoa_db, HP_LABEL_CACHE, last, reads, first_load, onto, agent>>

\* fetch_and_parse_hpoa up to the call of a _persist method, called by
\* ensure_hpoa_db or directly: the source is resolved, read and parsed
Fetch(t) ==
    /\ tasks[t].pc \in {"idle", "fetch"}
    /\ LET kind == IF tasks[t].pc = "idle" THEN "load" ELSE tasks[t].kind
           s == source_of("none")
           d == IF s.source = "remote" THEN download ELSE [raised |-> FALSE, requests |-> 0]
           raised == d.raised \/ (pd /\ Parsed[s.file].df.raised)
       IN  /\ tasks' = [tasks EXCEPT ![t] =
                           [kind |-> kind,
                            pc |-> IF raised THEN "failed" ELSE IF pd THEN "drop" ELSE "persist",
                            file |-> IF d.raised THEN "none" ELSE s.file,
                            loaded |-> TRUE, replaced |-> FALSE]]
           /\ cached_file' = IF s.source = "remote" /\ ~d.raised
                             THEN cache_write(s.file, "written") ELSE cached_file
    /\ UNCHANGED <<pd, env_path, workdir_location, remote, hpoa_db, HP_LABEL_CACHE, last, reads,
                   first_load, onto, agent>>

\* _persist_hpoa_to_db: one transaction, BEGIN IMMEDIATE to commit
PersistRows(t) ==
    /\ tasks[t].pc = "persist"
    /\ hpoa_db' = persist_hpoa_to_db(hpoa_db, Parsed[tasks[t].file].csv)
    /\ tasks' = [tasks EXCEPT ![t].pc = AfterLoad(tasks[t].kind), ![t].replaced = TRUE]
    /\ UNCHANGED <<env, HP_LABEL_CACHE, last, reads, first_load, onto, agent>>

\* df.to_sql(if_exists="replace"), first commit: the table, if there, is dropped
DropTable(t) ==
    /\ tasks[t].pc = "drop"
    /\ hpoa_db' = NoTable
    /\ tasks' = [tasks EXCEPT ![t].pc = "create"]
    /\ UNCHANGED <<env, HP_LABEL_CACHE, last, reads, first_load, onto, agent>>

\* df.to_sql, second commit: CREATE TABLE, which raises when the table is there
CreateTable(t) ==
    /\ tasks[t].pc = "create"
    /\ IF hpoa_db.present
       THEN /\ tasks' = [tasks EXCEPT ![t].pc = "failed"]
            /\ UNCHANGED hpoa_db
       ELSE /\ hpoa_db' = TableOf(df_table(Parsed[tasks[t].file].df).columns, <<>>)
            /\ tasks' = [tasks EXCEPT ![t].pc = "insert"]
    /\ UNCHANGED <<env, HP_LABEL_CACHE, last, reads, first_load, onto, agent>>

\* df.to_sql, third commit: the INSERTs, which raise when the table is not there
InsertRows(t) ==
    /\ tasks[t].pc = "insert"
    /\ IF ~hpoa_db.present
       THEN /\ tasks' = [tasks EXCEPT ![t].pc = "failed"]
            /\ UNCHANGED hpoa_db
       ELSE /\ hpoa_db' = [hpoa_db EXCEPT !.rows = @ \o df_table(Parsed[tasks[t].file].df).rows]
            /\ tasks' = [tasks EXCEPT ![t].pc = "index", ![t].replaced = TRUE]
    /\ UNCHANGED <<env, HP_LABEL_CACHE, last, reads, first_load, onto, agent>>

\* _persist_df_to_db, lines 311-316: the CREATE INDEX statements and the commit
CreateIndexes(t) ==
    /\ tasks[t].pc = "index"
    /\ tasks' = [tasks EXCEPT ![t].pc = IF hpoa_db.present /\ IndexColumns \subseteq hpoa_db.columns
                                        THEN AfterLoad(tasks[t].kind) ELSE "failed"]
    /\ UNCHANGED <<env, hpoa_db, HP_LABEL_CACHE, last, reads, first_load, onto, agent>>

\* the SELECT of a filter: what it reads from hpoa.db (it raises when the
\* table is not there)
Select(t) ==
    /\ tasks[t].pc = "query"
    /\ reads' = Append(reads, [task |-> t, raised |-> ~hpoa_db.present, seen |-> hpoa_db])
    /\ tasks' = [tasks EXCEPT ![t].pc = "done"]
    /\ UNCHANGED <<env, hpoa_db, HP_LABEL_CACHE, last, first_load, onto, agent>>

\* the datasets of ConcSpec: each has a header and records
ConcFiles == {"fixture", "variant"}

\* outside the program: AURELIAN_HPOA_PATH is set to the fixture or unset
DatasetChange ==
    /\ env_path' \in {"unset", "fixture"} \ {env_path}
    /\ UNCHANGED <<pd, workdir_location, cached_file, remote, hpoa_db, HP_LABEL_CACHE, last,
                   tasks, reads, first_load, onto, agent>>

ConcInit ==
    /\ pd \in BOOLEAN
    /\ env_path \in {"unset", "fixture"}
    /\ workdir_location = TRUE
    /\ cached_file = "absent"
    /\ remote = "variant"
    /\ hpoa_db \in {NoDb, NoTable, Table(<<>>)}
    /\ HP_LABEL_CACHE = << >>
    /\ last = NoCall
    /\ tasks = [t \in Threads |-> Idle]
    /\ reads = << >>
    /\ first_load = NoLoad
    /\ OntoInit /\ AgentInit

ConcNext ==
    \/ \E t \in Threads : Check(t)
    \/ \E t \in Threads : Fetch(t)
    \/ \E t \in Threads : PersistRows(t)
    \/ \E t \in Threads : DropTable(t)
    \/ \E t \in Threads : CreateTable(t)
    \/ \E t \in Threads : InsertRows(t)
    \/ \E t \in Threads : CreateIndexes(t)
    \/ \E t \in Threads : Select(t)
    \/ DatasetChange

ConcSpec == ConcInit /\ [][ConcNext]_vars

----------------------------------------------------------------------------
(* OntoSpec: the category classifier and the ontology helpers, with every  *)
(* behaviour of the adapter, over a few calls.                             *)

MaxOntoCalls == 2

OntoSpecInit ==
    /\ pd = TRUE
    /\ env_path = "unset"
    /\ workdir_location = TRUE
    /\ cached_file = "absent"
    /\ remote = "manifest_error"
    /\ hpoa_db = NoDb
    /\ HP_LABEL_CACHE = << >>
    /\ last = NoCall
    /\ tasks = NoTasks
    /\ reads = << >>
    /\ first_load = NoLoad
    /\ OntoInit /\ AgentInit

OntoNext ==
    \/ \E curie \in HelperCuries : \E beh \in LabelBehaviours :
          CallsMade < MaxOntoCalls /\ HpLabel(curie, beh)
    \/ \E curie \in HelperCuries : \E beh \in AncestorsBehaviours :
          CallsMade < MaxOntoCalls /\ HpAncestors(curie, beh)
    \/ \E curie \in HelperCuries : \E beh \in OutgoingBehaviours :
          CallsMade < MaxOntoCalls /\ HpOutgoing(curie, beh)
    \/ \E curie \in HelperCuries : \E beh \in ChildrenBehaviours :
          CallsMade < MaxOntoCalls /\ HpChildren(curie, beh)
    \/ \E label \in CategoryLabels : \E beh \in CategoryBehaviours :
          CallsMade < MaxOntoCalls /\ GetCategoryRoot(label, beh)
    \/ \E p \in TermsAndCategories : \E beh \in CategoryBehaviours :
          CallsMade < MaxOntoCalls /\ IsHpoInCategory(p[1], p[2], beh)
    \/ \E label \in HierarchyLabels : \E beh \in HierarchyBehaviours :
          CallsMade < MaxOntoCalls /\ HierarchyHp(label, beh)

OntoSpec == OntoSpecInit /\ [][OntoNext]_vars

----------------------------------------------------------------------------
(* AgentSpec: requests of the chat handler in worker threads, their tool   *)
(* calls through the limiters and the shared HTTP client.                  *)

AgentSpecInit ==
    /\ pd = TRUE
    /\ env_path = "unset"
    /\ workdir_location = TRUE
    /\ cached_file = "absent"
    /\ remote = "manifest_error"
    /\ hpoa_db = NoDb
    /\ HP_LABEL_CACHE = << >>
    /\ last = NoCall
    /\ tasks = NoTasks
    /\ reads = << >>
    /\ first_load = NoLoad
    /\ OntoInit /\ AgentInit

AgentNext ==
    \/ \E t \in Threads : StartRequest(t)
    \/ \E t \in Threads : \E tool \in Tools : WrapperCall(t, tool)
    \/ \E t \in Threads : \E raised \in BOOLEAN : ToolEnds(t, raised)
    \/ \E t \in Threads : \E outcome \in AttemptOutcomes : \E close_raises \in BOOLEAN :
          AttemptEnds(t, outcome, close_raises)

AgentSpec == AgentSpecInit /\ [][AgentNext]_vars

----------------------------------------------------------------------------
(* Properties of filter_hpoa.                                              *)
(* A row of the table is an AnnotationRow when HPOA accepts it; the rows   *)
(* the schema rejects are never part of a result.                          *)

AnnotationRows(table) == SelectSeq(table, HPOA)

\* text upper-cased with its spaces removed
Normalized(s) == SelectSeq([i \in 1..Len(s) |-> UpperChar(s[i])], LAMBDA c : c # " ")

\* q has the form PREFIX:chars: letters in any case, spaces anywhere
IsIdentifierQuery(q) ==
    LET n == Normalized(q)
    IN  \E k \in 1..Len(IdPrefixes) :
            LET h == IdPrefixes[k] \o <<":">>
            IN  /\ Len(n) > Len(h)
                /\ SubSeq(n, 1, Len(h)) = h
                /\ \A i \in (Len(h) + 1)..Len(n) : IdChar(n[i])

\* C1: for an identifier query q (PREFIX:chars, any case, spaces inside),
\* filter_hpoa returns exactly the rows whose database_id, upper-cased with
\* spaces removed, equals q upper-cased with spaces removed; a row whose id
\* only contains q, or is contained in q, is not returned.
C1_IdentifierExactness ==
    (last.op = "filter_hpoa" /\ last.outcome = "ok" /\ IsIdentifierQuery(last.arg)) =>
        last.result = SelectSeq(AnnotationRows(hpoa_db.rows),
                                LAMBDA r : Normalized(r.database_id) = Normalized(last.arg))

\* an identifier query answered with a row, over a table that also holds a
\* row whose id contains the query's and a row whose id the query's contains
C1_Witness ==
    /\ last.op = "filter_hpoa" /\ last.outcome = "ok" /\ IsIdentifierQuery(last.arg)
    /\ last.result # <<>>
    /\ \E i, j \in 1..Len(hpoa_db.rows) :
          LET a == Normalized(hpoa_db.rows[i].database_id)
              b == Normalized(hpoa_db.rows[j].database_id)
              q == Normalized(last.arg)
          IN  /\ HPOA(hpoa_db.rows[i]) /\ HPOA(hpoa_db.rows[j])
              /\ a # q /\ contains(a, q)
              /\ b # q /\ contains(q, b)

\* the query text of a label query, as the tool reads it
LabelText(q) == strip(q)

\* C2: for a query q that is no identifier query, filter_hpoa returns exactly
\* the rows whose disease_name contains q as a case-insensitive substring: all
\* of them, and no row whose disease_name lacks the literal text of q.
C2_LabelContainment ==
    (last.op = "filter_hpoa" /\ last.outcome = "ok" /\ last.arg \in LabelQueries) =>
        last.result = SelectSeq(AnnotationRows(hpoa_db.rows),
                                LAMBDA r : contains(lower(r.disease_name), lower(LabelText(last.arg))))

\* the CURIE written in a text: the identifier pattern matched in the text
\* as written, letters folded to upper case
CurieIn(text) == id_search(upper(text))

\* C3: when the input holds a CURIE together with other words, before or
\* after it, the rows returned are exactly those whose normalized database_id
\* equals that CURIE.
C3_CurieAmongWords ==
    (last.op = "filter_hpoa" /\ last.outcome = "ok" /\ last.arg \in MixedQueries) =>
        /\ CurieIn(last.arg).found
        /\ last.result = SelectSeq(AnnotationRows(hpoa_db.rows),
                                   LAMBDA r : Normalized(r.database_id) = CurieIn(last.arg).group)

----------------------------------------------------------------------------
(* Properties of filter_hpoa_by_pmid.                                      *)

IsDigits(t) == t # <<>> /\ \A i \in 1..Len(t) : t[i] \in DigitChars

\* the input without the whitespace around it is d or PMID:d
PmidDigitsOf(pmid) ==
    LET t == strip(pmid)
    IN  IF startswith(t, <<"P", "M", "I", "D", ":">>) THEN SubSeq(t, 6, Len(t)) ELSE t

IsPmidInput(pmid) == IsDigits(PmidDigitsOf(pmid))

\* the same citation written the other way: d for PMID:d, PMID:d for d
OtherForm(pmid) ==
    IF startswith(strip(pmid), <<"P", "M", "I", "D", ":">>) THEN PmidDigitsOf(pmid)
    ELSE <<"P", "M", "I", "D", ":">> \o PmidDigitsOf(pmid)

\* C4: for every digit string d, filter_hpoa_by_pmid("PMID:" + d) and
\* filter_hpoa_by_pmid(d) return the same rows, also with whitespace before
\* or after the input.
C4_PrefixedAndBareAgree ==
    (last.op = "filter_hpoa_by_pmid" /\ last.outcome = "ok" /\ IsPmidInput(last.arg)) =>
        last.result = filter_hpoa_by_pmid_rows(hpoa_db.rows, OtherForm(last.arg))

\* a padded PMID:d input answered with rows
C4_Witness ==
    /\ last.op = "filter_hpoa_by_pmid" /\ last.outcome = "ok"
    /\ last.arg # strip(last.arg)
    /\ startswith(strip(last.arg), <<"P", "M", "I", "D", ":">>) /\ IsPmidInput(last.arg)
    /\ last.result # <<>>

RECURSIVE Citations(_)
Citations(ref) ==
    LET i == IndexIn(";", ref)
    IN  IF i = 0 THEN {strip(ref)}
        ELSE {strip(SubSeq(ref, 1, i - 1))} \cup Citations(SubSeq(ref, i + 1, Len(ref)))

\* C6: filter_hpoa_by_pmid(p) returns the rows that cite the given PMID: a
\* row is returned if and only if one of the citations listed in its
\* reference field is PMID:p; a row whose citations are all other PMIDs is
\* not returned.
C6_CitesThePmid ==
    (last.op = "filter_hpoa_by_pmid" /\ last.outcome = "ok" /\ IsPmidInput(last.arg)) =>
        last.result = SelectSeq(AnnotationRows(hpoa_db.rows),
                                LAMBDA r : \E c \in Citations(r.reference) :
                                    upper(c) = <<"P", "M", "I", "D", ":">> \o PmidDigitsOf(last.arg))

----------------------------------------------------------------------------
(* Properties of filter_hpoa_by_hp.                                        *)

\* the input without the whitespace around it is HP: and digits, any case
IsHpIdInput(hp) ==
    LET t == strip(hp)
    IN  /\ Len(t) > 3
        /\ upper(SubSeq(t, 1, 3)) = <<"H", "P", ":">>
        /\ IsDigits(SubSeq(t, 4, Len(t)))

\* C7: for an input HP:nnnnnnn (any case, whitespace around it allowed),
\* filter_hpoa_by_hp returns exactly the rows whose hpo_id, upper-cased,
\* equals the input upper-cased, and the ontology adapter is not consulted.
C7_PhenotypeExactness ==
    (last.op = "filter_hpoa_by_hp" /\ last.outcome = "ok" /\ IsHpIdInput(last.arg)) =>
        /\ last.result = SelectSeq(AnnotationRows(hpoa_db.rows),
                                   LAMBDA r : upper(r.hpo_id) = upper(strip(last.arg)))
        /\ ~last.adapter_requested
        /\ last.adapter_calls = 0

\* a padded lower-case id answered with a row written in another case, over
\* a table with a row whose hpo_id is longer
C7_Witness ==
    /\ last.op = "filter_hpoa_by_hp" /\ last.outcome = "ok" /\ IsHpIdInput(last.arg)
    /\ last.arg # strip(last.arg)
    /\ strip(last.arg) # upper(strip(last.arg))
    /\ \E i \in 1..Len(last.result) : last.result[i].hpo_id = upper(strip(last.arg))
    /\ \E i \in 1..Len(hpoa_db.rows) :
          /\ hpoa_db.rows[i].hpo_id # upper(strip(last.arg))
          /\ contains(hpoa_db.rows[i].hpo_id, upper(strip(last.arg)))

\* C8: given a free-text label the label search cannot resolve (no hit, or
\* the search raises), filter_hpoa_by_hp returns an empty sequence for every
\* table content and does not raise.
C8_UnresolvedLabelIsEmpty ==
    (last.op = "filter_hpoa_by_hp" /\ ~is_hp_id(strip(last.arg)) /\ ~last.adapter_resolved) =>
        last.outcome = "ok" /\ last.result = <<>>

----------------------------------------------------------------------------
(* Properties of the loader.                                               *)

FilterOps == {"filter_hpoa", "filter_hpoa_by_pmid", "filter_hpoa_by_hp"}

ExplicitExists(path) == path \in FileIds
EnvExists == env_path \in FileIds
CacheExists == workdir_location /\ cached_file \in FileIds
RemoteResolves == remote \in FileIds

\* none of the sources a filter can load from resolves (a filter passes no
\* explicit path)
NoSourceResolves == ~EnvExists /\ ~CacheExists /\ ~RemoteResolves

SourceFile(source, path) ==
    CASE source = "explicit" -> path
      [] source = "env" -> env_path
      [] source = "cache" -> cached_file
      [] source = "remote" -> remote

\* C10: a load reads the dataset from the first source that resolves, in the
\* order explicit path, AURELIAN_HPOA_PATH, cached copy, remote download; a
\* later source is used only when every earlier one is absent, and no
\* request goes to the remote endpoint when a local source exists.
C10_ResolutionOrder ==
    [][ (last'.op # "none" /\ last'.loaded) =>
          /\ (last'.source = "explicit") <=> ExplicitExists(last'.path)
          /\ (last'.source = "env") <=> (~ExplicitExists(last'.path) /\ EnvExists)
          /\ (last'.source = "cache") <=>
                (~ExplicitExists(last'.path) /\ ~EnvExists /\ CacheExists)
          /\ (last'.source = "remote") <=>
                (~ExplicitExists(last'.path) /\ ~EnvExists /\ ~CacheExists)
          /\ (last'.requests > 0) <=>
                (~ExplicitExists(last'.path) /\ ~EnvExists /\ ~CacheExists)
          /\ (last'.outcome = "ok") =>
                /\ last'.file = SourceFile(last'.source, last'.path)
                /\ hpoa_db' = parse_and_persist(hpoa_db, last'.file).db
      ]_vars

\* a load that read the cached copy while AURELIAN_HPOA_PATH names no file
\* and the remote endpoint serves another dataset
C10_Witness ==
    /\ last.op # "none" /\ last.loaded /\ last.source = "cache" /\ last.requests = 0
    /\ env_path = "missing"
    /\ remote \in FileIds /\ remote # cached_file
    /\ last.file = cached_file /\ last.outcome = "ok" /\ hpoa_db.rows # <<>>

----------------------------------------------------------------------------
(* Loading and persistence.                                                *)

\* C13: ensure_hpoa_db, called directly or by a filter, performs a load
\* exactly when the database file is missing, the hpoa table is missing or
\* the table has zero rows; when the table holds at least one row the call
\* loads nothing and leaves the table and the cache file as they were and
\* sends no request to the remote endpoint.
C13_LoadExactlyWhenEmpty ==
    [][ last'.op \in {"ensure_hpoa_db"} \cup FilterOps =>
          /\ last'.loaded <=> (~hpoa_db.file \/ ~hpoa_db.present \/ Len(hpoa_db.rows) = 0)
          /\ (hpoa_db.file /\ hpoa_db.present /\ Len(hpoa_db.rows) > 0) =>
                /\ hpoa_db' = hpoa_db
                /\ cached_file' = cached_file
                /\ last'.requests = 0 /\ last'.source = "none"
      ]_vars

\* a filter over a table with rows that loaded nothing, while the endpoint
\* serves a dataset other than the one in the table and no local source
\* exists
C13_Witness ==
    /\ last.op \in FilterOps /\ ~last.loaded /\ last.outcome = "ok"
    /\ hpoa_db.present /\ Len(hpoa_db.rows) = 3
    /\ env_path = "unset" /\ cached_file = "absent" /\ remote = "variant"

\* C14: a load attempt that fails (the header is missing or malformed, or
\* any error is raised during the load) leaves the hpoa table exactly as it
\* was before the attempt.
C14_FailedLoadKeepsTable ==
    [][ (last'.op # "none" /\ last'.loaded /\ last'.outcome = "error") => hpoa_db' = hpoa_db ]_vars

\* the datasets without a header line, or whose header lacks a column name
HeaderlessFiles == {"comments", "empty", "noheader", "badheader"}

\* C15: a load whose dataset has no header line, or a header that lacks the
\* expected column names, fails with an error; it never succeeds.
C15_HeaderRequired ==
    (last.op # "none" /\ last.loaded /\ last.file \in HeaderlessFiles) => last.outcome = "error"

\* C18: a completed load of a dataset that was loaded before leaves the
\* table with the columns and rows the first completed load of that dataset
\* left, whatever was loaded in between.
C18_ReloadIdempotent ==
    (last.op # "none" /\ last.loaded /\ last.outcome = "ok" /\ last.file = first_load.file)
        => hpoa_db = first_load.db

\* the fixture dataset loaded again into a table that another dataset had
\* filled in between
C18_Witness ==
    /\ last.op = "fetch_and_parse_hpoa" /\ last.outcome = "ok"
    /\ last.file = "fixture" /\ first_load.file = "fixture"
    /\ hpoa_db.rows = first_load.db.rows /\ Len(hpoa_db.rows) = 3
    /\ first_load.between

\* the records of the datasets that have a header, as written in the file
RecordsOf(f) ==
    CASE f = "fixture" -> FixtureRows
      [] f = "variant" -> VariantRows
      [] f = "hash" -> HashRows
      [] f = "headeronly" -> <<>>

\* C19: a completed load yields one record per line of the file that is
\* neither blank nor starts with #, after the header, in file order, every
\* value as written in the file (a # inside a value included), with either
\* reader: both the rows returned and the rows of the table are the
\* records of the file.
C19_RecordsAsWritten ==
    ( /\ last.op = "fetch_and_parse_hpoa" /\ last.outcome = "ok"
      /\ last.file \in {"fixture", "variant", "hash", "headeronly"} )
    => /\ hpoa_db.rows = RecordsOf(last.file)
       /\ Len(last.result) = Len(RecordsOf(last.file))
       /\ \A i \in 1..Len(last.result) :
             \A c \in ColumnSet : get(last.result[i], ColumnText[c]) = RecordsOf(last.file)[i][c]

\* the rows the SELECT of the last filter call fetches from the table
C20_Fetched ==
    CASE last.op = "filter_hpoa" ->
            IF q_id_of(last.arg).found
            THEN select_by_id(hpoa_db.rows, q_id_of(last.arg).group)
            ELSE select_by_name(hpoa_db.rows, q_raw_of(last.arg))
      [] last.op = "filter_hpoa_by_pmid" -> select_by_pmid(hpoa_db.rows, pid_of(last.arg))
      [] last.op = "filter_hpoa_by_hp" -> select_by_hp(hpoa_db.rows, strip(last.arg))

\* C20: when rows that match a filter query violate the schema (evidence or
\* aspect outside the allowed values, a required field null), the query
\* raises nothing and returns exactly the matching rows that validate, in
\* the order of the table.
C20_InvalidRowsSkipped ==
    ( /\ last.op \in FilterOps
      /\ \E i \in 1..Len(C20_Fetched) : ~HPOA(C20_Fetched[i]) )
    => /\ last.outcome = "ok"
       /\ last.result = SelectSeq(C20_Fetched, HPOA)

\* a query by PMID that matched a row with evidence ISS and a valid row and
\* returned the valid one only
C20_Witness ==
    /\ last.op = "filter_hpoa_by_pmid" /\ last.outcome = "ok"
    /\ \E i \in 1..Len(C20_Fetched) : C20_Fetched[i].evidence = <<"I", "S", "S">>
    /\ Len(last.result) > 0 /\ Len(last.result) < Len(C20_Fetched)

\* a completed load that downloaded the dataset
DownloadCompleted(call) ==
    call.op # "none" /\ call.loaded /\ call.outcome = "ok" /\ call.source = "remote"

\* a load given no explicit path that exists
LoadWithoutPath(call) == call.op # "none" /\ call.loaded /\ ~ExplicitExists(call.path)

PartialFiles == {"empty", "fixture_cut"}

\* C17: a load whose download fails, at the release request or at the
\* asset request, fails, and the cache file is neither created nor
\* modified; and in no reachable state does the cache file hold a partially
\* written dataset.
C17_NoPartialCache ==
    [][ /\ (last'.op # "none" /\ last'.loaded /\ last'.source = "remote"
              /\ remote \in RemoteFailures)
           => (last'.outcome = "error" /\ cached_file' = cached_file)
        /\ cached_file' \notin PartialFiles
      ]_vars

\* the table after a completed load of a dataset
CompleteTables == {parse_and_persist(NoDb, f).db : f \in ConcFiles}

\* C11: replacing the table during a load is atomic for readers on both
\* persistence paths: the SELECT of a filter, which runs after the filter's
\* ensure_hpoa_db found or loaded rows, reads all the rows of one completed
\* load, never a missing table, an empty table, or rows of two loads.
C11_ReplaceIsAtomic ==
    \A i \in 1..Len(reads) : ~reads[i].raised /\ reads[i].seen \in CompleteTables

\* C12: calls of ensure_hpoa_db that run concurrently over an absent or
\* empty store collapse into a single load: at most one of them fetches the
\* dataset and at most one replaces the table.
C12_SingleLoad ==
    /\ Cardinality({t \in Threads : tasks[t].kind = "filter" /\ tasks[t].loaded}) <= 1
    /\ Cardinality({t \in Threads : tasks[t].kind = "filter" /\ tasks[t].replaced}) <= 1

----------------------------------------------------------------------------
(* Result order, the category classifier, the tool budgets and the shared  *)
(* HTTP client.                                                            *)

\* s is t with some elements left out, the others in the order of t
RECURSIVE IsSubsequence(_, _)
IsSubsequence(s, t) ==
    IF s = <<>> THEN TRUE
    ELSE IF t = <<>> THEN FALSE
    ELSE IF Head(s) = Head(t) THEN IsSubsequence(Tail(s), Tail(t))
    ELSE IsSubsequence(s, Tail(t))

----------------------------------------------------------------------------
(* The category classifier (OntoSpec).                                     *)

OntoOps == {"hp_label", "hp_ancestors", "hp_outgoing", "hp_children", "get_category_root",
            "is_hpo_in_category", "hierarchy_hp"}

\* what _hp_ancestors holds for a term after a call that asked for it
AncestorsOf(t) == IF t \in DOMAIN HP_ANCESTORS_CACHE THEN HP_ANCESTORS_CACHE[t] ELSE <<>>

\* C22: is_hpo_in_category, called with an adapter, returns without raising,
\* and returns true exactly when the category resolved and is the term
\* itself or one of the ancestors _hp_ancestors gives for the term
C22_ReflexiveAncestorTest ==
    (last.op = "is_hpo_in_category" /\ ~last.unavailable) =>
        /\ last.outcome = "ok"
        /\ last.val.in <=>
              /\ last.val.root.found
              /\ \/ last.val.root.id = last.hpo_id
                 \/ last.val.root.id \in SetOf(AncestorsOf(last.hpo_id))

\* C22 witness: a term that is itself the category is classified into it
\* although no ancestors of it are known
C22_Witness ==
    /\ last.op = "is_hpo_in_category" /\ last.outcome = "ok"
    /\ last.hpo_id = HP_NERVOUS /\ last.val.root.id = HP_NERVOUS
    /\ last.val.in
    /\ AncestorsOf(HP_NERVOUS) = <<>>

\* the label the ontology has for a child, as line 339 normalises it
NormLabel(cid) == lower(strip(text_or_empty(adapter_label(cid))))

\* every label in _HP_LABEL_CACHE is the one the ontology has
LabelsKnown == \A k \in DOMAIN HP_LABEL_CACHE : HP_LABEL_CACHE[k] = adapter_label(k)

\* C23: when a child of the category root has a label equal to the key,
\* get_category_root returns a child with that label, also when an earlier
\* child's label only contains the key
C23_ExactBeforeSubstring ==
    ( /\ last.op = "get_category_root" /\ last.outcome = "ok" /\ last.val.found
      /\ LabelsKnown
      /\ CATEGORY_ROOT \in DOMAIN HP_CHILDREN_CACHE
      /\ \E cid \in SetOf(HP_CHILDREN_CACHE[CATEGORY_ROOT]) :
            NormLabel(cid) = lower(strip(last.arg)) )
    => NormLabel(last.val.id) = lower(strip(last.arg))

\* the children of the category root _hp_children holds
CachedChildren ==
    IF CATEGORY_ROOT \in DOMAIN HP_CHILDREN_CACHE THEN HP_CHILDREN_CACHE[CATEGORY_ROOT]
    ELSE <<>>

\* the normalised label _hp_label holds for an id
CachedLabel(cid) ==
    IF cid \in DOMAIN HP_LABEL_CACHE THEN lower(strip(text_or_empty(HP_LABEL_CACHE[cid])))
    ELSE <<>>

\* a child whose label matches the key
SomeChildMatches(key) ==
    \E cid \in SetOf(CachedChildren) : label_matches(CachedLabel(cid), key)

\* a child that is the search hit or among its ancestors
SomeChildAbove(term) ==
    term.some /\ \E cid \in SetOf(CachedChildren) :
                    cid \in SetOf(AncestorsOf(term.val)) \/ cid = term.val

C25_AbsentIds ==
    /\ (last.op = "hp_label" /\ last.arg = HP_UNKNOWN) => last.val = None
    /\ (last.op \in {"hp_ancestors", "hp_outgoing", "hp_children"} /\ last.arg = HP_UNKNOWN)
          => last.val = <<>>
    /\ (last.op = "hierarchy_hp" /\ last.arg = HP_UNKNOWN /\ ~last.unavailable) =>
          /\ last.outcome = "ok"
          /\ last.val = [error |-> FALSE, id |-> HP_UNKNOWN, label |-> None,
                         parents |-> <<>>, ancestors |-> <<>>]
    /\ (last.op = "is_hpo_in_category" /\ last.hpo_id = HP_UNKNOWN /\ ~last.unavailable) =>
          /\ last.outcome = "ok"
          /\ ~last.val.in

\* C25 witness: hierarchy_hp of an absent id, asked of the adapter
C25_Witness ==
    /\ last.op = "hierarchy_hp" /\ last.arg = HP_UNKNOWN /\ last.outcome = "ok"
    /\ last.adapter_calls = 3
    /\ HP_UNKNOWN \notin DOMAIN last.before.label

\* a dict that has every entry of an earlier one, unchanged
Extends(now, before) == \A k \in DOMAIN before : k \in DOMAIN now /\ now[k] = before[k]

\* C26: the four caches only grow and no entry is changed; a lookup stores
\* what it returns, the fallback after a raise too; a lookup of a stored id
\* returns the stored value without calling the adapter
C26_ReadThrough ==
    (last.op \in OntoOps) =>
        /\ Extends(HP_LABEL_CACHE, last.before.label)
        /\ Extends(HP_ANCESTORS_CACHE, last.before.ancestors)
        /\ Extends(HP_OUTGOING_CACHE, last.before.outgoing)
        /\ Extends(HP_CHILDREN_CACHE, last.before.children)
        /\ (last.op = "hp_label") =>
              /\ last.arg \in DOMAIN HP_LABEL_CACHE /\ HP_LABEL_CACHE[last.arg] = last.val
              /\ last.arg \in DOMAIN last.before.label => last.adapter_calls = 0
        /\ (last.op = "hp_ancestors") =>
              /\ last.arg \in DOMAIN HP_ANCESTORS_CACHE
              /\ HP_ANCESTORS_CACHE[last.arg] = last.val
              /\ last.arg \in DOMAIN last.before.ancestors => last.adapter_calls = 0
        /\ (last.op = "hp_outgoing") =>
              /\ last.arg \in DOMAIN HP_OUTGOING_CACHE
              /\ HP_OUTGOING_CACHE[last.arg] = last.val
              /\ last.arg \in DOMAIN last.before.outgoing => last.adapter_calls = 0
        /\ (last.op = "hp_children") =>
              /\ last.arg \in DOMAIN HP_CHILDREN_CACHE
              /\ HP_CHILDREN_CACHE[last.arg] = last.val
              /\ last.arg \in DOMAIN last.before.children => last.adapter_calls = 0

\* C26 witness: the empty list stored when the adapter raised is what a later
\* lookup of a term with ancestors returns, without a call of the adapter
C26_Witness ==
    /\ last.op = "hp_ancestors" /\ last.arg = HP_SEIZURE
    /\ HP_SEIZURE \in DOMAIN last.before.ancestors
    /\ last.val = <<>> /\ last.adapter_calls = 0

\* C27: a call of get_category_root in which the children capability is
\* unsupported or raises, and every call after it, returns not-found, stores
\* nothing in _CATEGORY_LABEL_TO_ID and leaves the empty list of children
\* cached
C27_NoChildren ==
    ( /\ last.op = "get_category_root"
      /\ \/ last.children \in {"unsupported", "raises"}
         \/ /\ CATEGORY_ROOT \in DOMAIN last.before.children
            /\ last.before.children[CATEGORY_ROOT] = <<>> /\ ~last.unavailable )
    => /\ last.outcome = "ok" /\ ~last.val.found
       /\ CATEGORY_LABEL_TO_ID = last.before.category
       /\ CATEGORY_ROOT \in DOMAIN HP_CHILDREN_CACHE
       /\ HP_CHILDREN_CACHE[CATEGORY_ROOT] = <<>>

\* C27 witness: a label of a child of the root is not found in a call after
\* the one in which the children capability failed
C27_Witness ==
    /\ last.op = "get_category_root" /\ last.arg = <<" ", "N", "e", "r", "v", "o", "u", "s", " ", "S", "y", "s", "t", "e", "m", " ">>
    /\ last.children = "cached"
    /\ last.before.children[CATEGORY_ROOT] = <<>>
    /\ ~last.val.found /\ last.val.term = Some(HP_NERVOUS)

----------------------------------------------------------------------------
(* Tool budgets and the shared HTTP client (AgentSpec).                    *)

C29_BudgetPerRequest ==
    (last_tool.op = "call" /\ last_tool.answer = "exceeded") =>
        last_tool.made_before >= max_calls(last_tool.tool)

\* C30, first part: when an attempt has ended the shared reference is none
\* and the client it held has been closed, also when closing raised
C30_ReleasedOnExit ==
    (last_tool.op = "close") =>
        /\ async_client = 0
        /\ last_tool.had # 0 => last_tool.had \in closed

\* C30, second part: the shared reference never holds a closed client, and
\* the calls that obtained a client since the last close hold the same one
C30_OneClientBetweenCloses ==
    /\ async_client # 0 => async_client \notin closed
    /\ \A t \in Threads :
          (sessions[t].using # 0 /\ sessions[t].using \notin closed) =>
              sessions[t].using = async_client

\* C30: no client is closed while a tool call that obtained it is still
\* awaiting its request
C30_NotClosedInUse ==
    \A t \in Threads : sessions[t].using # 0 => sessions[t].using \notin closed


====
